---- MODULE Spec2Model ----
(***************************************************************************)
(* The Telegram <-> Claude Code bridge.                                    *)
(*                                                                         *)
(* The repository holds the bridge at two stages:                          *)
(*   - src/unnamed/part_002, lines 1-795: the bridge with the allow-list,  *)
(*     the mute flag and the POST /hook endpoint (specification Spec);     *)
(*   - src/src/bridge.js with src/hooks/send-to-telegram.js: the bridge    *)
(*     with the pending marker file and no allow-list (specification       *)
(*     SpecV1; its definitions carry the suffix V1).                       *)
(* Both share the files under ~/.claude and the pane registry code.        *)
(*                                                                         *)
(* Further specifications look at one part each: SpecOverlap and          *)
(* SpecOverlapV1 at two requests in flight at once, SpecRestart at the     *)
(* bridge across a restart of its process, SpecHook at the hook process    *)
(* beside the bridge of src/bridge.js, SpecExtract at the transcript       *)
(* extractor and SpecConv at the two markup converters.                    *)
(*                                                                         *)
(* A handler runs atomically from one await to the next: every action is   *)
(* one such segment.  Strings are TLA+ strings; the back-tick cannot be    *)
(* written in a TLA+ string and is spelled "^".                            *)
(***************************************************************************)
EXTENDS Integers, Sequences, FiniteSets, TLC

VARIABLES
    ALLOWED_CHAT_IDS,   \* the allow-list read from the environment at start
    WEZTERM_PANE_ID,    \* process.env.WEZTERM_PANE_ID, None when unset
    panes,              \* pane ids the multiplexer lists right now (external)
    selectedPaneId,     \* let selectedPaneId
    paneFile,           \* content of PANE_ID_FILE, None when absent
    chatFile,           \* content of CHAT_ID_FILE, None when absent
    pendingFile,        \* content of PENDING_FILE: <<>> when absent, else <<text>>
    isMuted,            \* let isMuted
    typingInterval,     \* let typingInterval: None, or the chat of the timer
    liveTimers,         \* setInterval timers scheduled and not yet cleared
    now,                \* Date.now(), in milliseconds since the start
    serverUp,           \* the bridge process is alive
    req,                \* the HTTP requests in flight, by slot
    outstanding,        \* free-text requests forwarded and not yet completed
    lastRun,            \* what the bridge process before this one held as it ended
    hook,               \* the hook process the assistant started on its last event
    conv                \* a message on its way through the markup converters

\* the bridge and its files
bridgeVars == <<ALLOWED_CHAT_IDS, WEZTERM_PANE_ID, panes, selectedPaneId, paneFile,
                chatFile, pendingFile, isMuted, typingInterval, liveTimers, now,
                serverUp, req, outstanding, lastRun>>

vars == <<bridgeVars, hook, conv>>

None == "<none>"

\* ------------------------------------------------------------ the bounds
\* Request slots: the requests that may be in flight at once, and the one
\* slot used where requests arrive one after the other.
Slots == {1, 2}
FirstSlot == {1}
\* how many forwarded requests the assistant may have before it
MaxOutstanding == 2
\* Chats that write to the bot, and the allow-lists a deployment may have.
Chats == {"111", "222"}
AllowLists == {{}, {"111"}, {"111", "222"}}
\* The panes the multiplexer may list; "7" is never listed.
PaneIds == {"3", "5"}
EnvPaneIds == {None, "5"}
\* What the multiplexer may answer to one listing request
PaneListings == SUBSET PaneIds
\* how far the clock runs, in steps of ClockStep milliseconds
MaxNow == 1
ClockStep == 10 * 60 * 1000

PaneTitle(id) == IF id = "3" THEN "shell" ELSE ""

\* ------------------------------------------------------------ strings
IsWhite(ch) == ch \in {" ", "\n", "\t", "\r"}

startsWith(s, p) == Len(s) >= Len(p) /\ SubSeq(s, 1, Len(p)) = p

Upper == "ABCDEFGHIJKLMNOPQRSTUVWXYZ"
Lower == "abcdefghijklmnopqrstuvwxyz"

lowerChar(ch) ==
    IF \E i \in 1..Len(Upper) : SubSeq(Upper, i, i) = ch
    THEN LET i == CHOOSE i \in 1..Len(Upper) : SubSeq(Upper, i, i) = ch
         IN  SubSeq(Lower, i, i)
    ELSE ch

RECURSIVE toLowerCase(_)
toLowerCase(s) ==
    IF s = "" THEN ""
    ELSE lowerChar(SubSeq(s, 1, 1)) \o toLowerCase(SubSeq(s, 2, Len(s)))

RECURSIVE trimStart(_)
trimStart(s) ==
    IF s # "" /\ IsWhite(SubSeq(s, 1, 1)) THEN trimStart(SubSeq(s, 2, Len(s)))
    ELSE s

RECURSIVE trimEnd(_)
trimEnd(s) ==
    IF s # "" /\ IsWhite(SubSeq(s, Len(s), Len(s)))
    THEN trimEnd(SubSeq(s, 1, Len(s) - 1))
    ELSE s

trim(s) == trimEnd(trimStart(s))

\* Index of the first occurrence of the one-character string ch in s, 0 if none.
indexOfChar(s, ch) ==
    IF \E i \in 1..Len(s) : SubSeq(s, i, i) = ch
    THEN CHOOSE i \in 1..Len(s) :
            /\ SubSeq(s, i, i) = ch
            /\ \A j \in 1..(i - 1) : SubSeq(s, j, j) # ch
    ELSE 0

\* const [command, ...args] = text.split(' ')
splitCommand(text) ==
    LET i == indexOfChar(text, " ")
    IN  IF i = 0 THEN text ELSE SubSeq(text, 1, i - 1)

\* args.join(' '): what follows the first space
splitArgs(text) ==
    LET i == indexOfChar(text, " ")
    IN  IF i = 0 THEN "" ELSE SubSeq(text, i + 1, Len(text))

\* text.replace(/"/g, '""')
RECURSIVE escapeQuotes(_)
escapeQuotes(s) ==
    IF s = "" THEN ""
    ELSE (IF SubSeq(s, 1, 1) = "\"" THEN "\"\"" ELSE SubSeq(s, 1, 1))
         \o escapeQuotes(SubSeq(s, 2, Len(s)))

Digits == "0123456789"

\* n.toString() for a number n >= 0
RECURSIVE ToStr(_)
ToStr(n) ==
    IF n < 10 THEN SubSeq(Digits, n + 1, n + 1)
    ELSE ToStr(n \div 10) \o SubSeq(Digits, (n % 10) + 1, (n % 10) + 1)

\* ------------------------------------------------------------ context
\* A handler segment works on a context: the process and file state, the
\* request it serves (q), the listings (L) and shell outcomes (E) it will
\* meet, the exception in flight (exc) and the last return value (ret).
\* L and E hold the answers decided so far: a listing read beyond L repeats
\* the last one, a shell call beyond E succeeds.
Ctx(r, L, E) ==
    [selectedPaneId |-> selectedPaneId, paneFile |-> paneFile,
     chatFile |-> chatFile, pendingFile |-> pendingFile, isMuted |-> isMuted,
     typingInterval |-> typingInterval, liveTimers |-> liveTimers,
     q |-> req[r], L |-> L, nfetch |-> 0, E |-> E, nexec |-> 0,
     exc |-> None, ret |-> None, crashed |-> FALSE]

Msg(tpl, args) == [tpl |-> tpl, args |-> args]

enter(c, fn) == [c EXCEPT !.q.calls = @ \cup {fn}]

\* telegramApi(method, body): the call is recorded on the request.
telegramApi(c, method, chatId, text, parseMode) ==
    [c EXCEPT !.q.out = Append(@, [method |-> method, chat_id |-> chatId,
                                   text |-> text, parse_mode |-> parseMode])]

sendMessage(c, chatId, text) == telegramApi(c, "sendMessage", chatId, text, "HTML")

stopTypingLoop(c) ==
    IF c.typingInterval # None
    THEN [c EXCEPT !.typingInterval = None, !.liveTimers = @ - 1]
    ELSE c

\* startTypingLoop that does not cancel the timer it replaces
startTypingLoopNoStop(c, chatId) ==
    LET c2 == telegramApi(c, "sendChatAction", chatId, Msg("typing", <<>>), None)
    IN  [c2 EXCEPT !.typingInterval = chatId, !.liveTimers = @ + 1]

startTypingLoop(c, chatId) ==
    LET c1 == stopTypingLoop(c)
        c2 == telegramApi(c1, "sendChatAction", chatId, Msg("typing", <<>>), None)
    IN  [c2 EXCEPT !.typingInterval = chatId, !.liveTimers = @ + 1]

\* ------------------------------------------------------------ pane registry
getWeztermPanes(c) ==
    LET n == c.nfetch + 1
    IN  [c EXCEPT !.nfetch = n, !.ret = IF n <= Len(c.L) THEN c.L[n] ELSE c.L[Len(c.L)]]

\* saveSelectedPaneId that does not write the file
saveSelectedPaneIdInMemory(c, paneId) == [c EXCEPT !.selectedPaneId = paneId]

saveSelectedPaneId(c, paneId) ==
    [c EXCEPT !.selectedPaneId = paneId, !.paneFile = paneId]

\* clearSelectedPaneId that leaves the file in place
clearSelectedPaneIdInMemory(c) == [c EXCEPT !.selectedPaneId = None]

clearSelectedPaneId(c) ==
    [c EXCEPT !.selectedPaneId = None, !.paneFile = None]

paneExists(c, paneId) ==
    LET c1 == getWeztermPanes(c)
    IN  [c1 EXCEPT !.ret = (paneId \in c1.ret)]

\* the record of one pane resolution: what was selected, the listing read
\* (the empty set when none was read), what was returned and what is selected
\* afterwards
resolution(before, listed, after, paneId) ==
    [after EXCEPT !.ret = paneId,
                  !.q.resolved = Append(@, [selected |-> before.selectedPaneId,
                                            listed |-> listed, ret |-> paneId,
                                            selectedAfter |-> after.selectedPaneId,
                                            fileAfter |-> after.paneFile])]

\* findClaudePaneId that leaves a stale selection in place
findClaudePaneIdKeep(c) ==
    LET c1 == IF c.selectedPaneId # None THEN paneExists(c, c.selectedPaneId)
              ELSE [c EXCEPT !.ret = FALSE]
        listed == IF c.selectedPaneId # None THEN getWeztermPanes(c).ret ELSE {}
    IN  IF c1.ret
        THEN resolution(c, listed, c1, c.selectedPaneId)
        ELSE resolution(c, listed, c1, WEZTERM_PANE_ID)

findClaudePaneId(c) ==
    LET c1 == IF c.selectedPaneId # None THEN paneExists(c, c.selectedPaneId)
              ELSE [c EXCEPT !.ret = FALSE]
        listed == IF c.selectedPaneId # None THEN getWeztermPanes(c).ret ELSE {}
    IN  IF c1.ret
        THEN resolution(c, listed, c1, c.selectedPaneId)
        ELSE LET c2 == IF c.selectedPaneId # None THEN clearSelectedPaneId(c1)
                       ELSE c1
             IN  resolution(c, listed, c2, WEZTERM_PANE_ID)

\* ------------------------------------------------------------ dispatcher
\* PowerShell's escapes for the carriage return and the escape character
CarriageReturn == "\r"
EscapeKey == "<ESC>"

throw(c, error) == [c EXCEPT !.exc = error]

\* execSync of one send-text invocation: injects keys into the pane, or throws.
execSendText(c, paneId, keys) ==
    LET c1 == [c EXCEPT !.nexec = @ + 1]
        succeeds == IF c1.nexec <= Len(c.E) THEN c.E[c1.nexec] ELSE TRUE
    IN  IF succeeds
        THEN [c1 EXCEPT !.q.inj = Append(@, [pane |-> paneId, keys |-> keys])]
        ELSE throw([c1 EXCEPT !.q.shellFailed = TRUE], "ExecFailed")

\* the two invocations with the first one's failure ignored
sendReturnRegardless(c, paneId, text) ==
    LET c1 == execSendText(c, paneId, escapeQuotes(text))
        c2 == execSendText([c1 EXCEPT !.exc = None], paneId, CarriageReturn)
    IN  IF c2.exc # None THEN c2 ELSE [c2 EXCEPT !.ret = TRUE]

\* the try block of weztermSendText: the text, then the carriage return
sendTextThenReturn(c, paneId, text) ==
    LET c1 == execSendText(c, paneId, escapeQuotes(text))
    IN  IF c1.exc # None THEN c1
        ELSE LET c2 == execSendText(c1, paneId, CarriageReturn)
             IN  IF c2.exc # None THEN c2 ELSE [c2 EXCEPT !.ret = TRUE]

\* the record of one weztermSendText call: the listing it fetched at its
\* start, the listing findClaudePaneId read after it (the empty set when it
\* read none), the pane it resolved (None when it got to none), the error it
\* threw, the keys it injected and the selection it left
sendRecord(before, listed, paneId, after) ==
    [after EXCEPT !.q.sends =
        Append(@, [listed |-> listed,
                   relisted |-> IF Len(after.q.resolved) > Len(before.q.resolved)
                                THEN after.q.resolved[Len(after.q.resolved)].listed
                                ELSE {},
                   pane |-> paneId, error |-> after.exc,
                   injected |-> SubSeq(after.q.inj, Len(before.q.inj) + 1,
                                       Len(after.q.inj)),
                   selectedAfter |-> after.selectedPaneId,
                   fileAfter |-> after.paneFile])]

\* weztermSendText without the double check against its fresh listing
weztermSendTextUnchecked(c0, text) ==
    LET c == enter(c0, "weztermSendText")
        c1 == getWeztermPanes(c)
        listed == c1.ret
    IN  IF listed = {}
        THEN sendRecord(c0, listed, None, throw(clearSelectedPaneId(c1), "WezTermDown"))
        ELSE LET c2 == findClaudePaneId(c1)
                 paneId == c2.ret
             IN  IF paneId = None
                 THEN sendRecord(c0, listed, paneId, throw(c2, "NoPaneSelected"))
                 ELSE sendRecord(c0, listed, paneId, sendTextThenReturn(c2, paneId, text))

weztermSendText(c0, text) ==
    LET c == enter(c0, "weztermSendText")
        c1 == getWeztermPanes(c)
        listed == c1.ret
    IN  IF listed = {}
        THEN sendRecord(c0, listed, None, throw(clearSelectedPaneId(c1), "WezTermDown"))
        ELSE LET c2 == findClaudePaneId(c1)
                 paneId == c2.ret
             IN  IF paneId = None
                 THEN sendRecord(c0, listed, paneId, throw(c2, "NoPaneSelected"))
                 ELSE IF paneId \notin listed
                 THEN sendRecord(c0, listed, paneId,
                                 throw(clearSelectedPaneId(c2), "PaneGone"))
                 ELSE sendRecord(c0, listed, paneId, sendTextThenReturn(c2, paneId, text))

weztermSendTextV1(c0, text) ==
    LET c == enter(c0, "weztermSendText")
        c1 == findClaudePaneId(c)
        paneId == c1.ret
    IN  IF paneId = None
        THEN throw(c1, "NoPaneSelected")
        ELSE sendTextThenReturn(c1, paneId, text)

weztermSendEscape(c0) ==
    LET c == enter(c0, "weztermSendEscape")
        c1 == findClaudePaneId(c)
        paneId == c1.ret
    IN  IF paneId = None
        THEN [c1 EXCEPT !.ret = FALSE]
        ELSE LET c2 == execSendText(c1, paneId, EscapeKey)
             IN  IF c2.exc # None
                 THEN [c2 EXCEPT !.exc = None, !.ret = FALSE]
                 ELSE [c2 EXCEPT !.ret = TRUE]

\* ------------------------------------------------------------ session files
\* saveChatId that writes nothing
saveChatIdNowhere(c, chatId) == c

saveChatId(c, chatId) == [c EXCEPT !.chatFile = chatId]

getChatId(c) == [c EXCEPT !.ret = IF c.chatFile = None THEN None ELSE trim(c.chatFile)]

\* setPending that writes nothing
setPendingNothing(c) == c

setPending(c) == [c EXCEPT !.pendingFile = <<ToStr(now)>>]

\* clearPending that leaves the marker file in place
clearPendingNothing(c) == c

clearPending(c) == [c EXCEPT !.pendingFile = <<>>]

\* isAuthorized without the allow-list
isAuthorizedAll(chatId) == TRUE

\* isAuthorized with an empty allow-list read as "no restriction"
isAuthorizedOpen(chatId) ==
    ALLOWED_CHAT_IDS = {} \/ chatId \in ALLOWED_CHAT_IDS

isAuthorized(chatId) ==
    IF Cardinality(ALLOWED_CHAT_IDS) = 0 THEN FALSE
    ELSE chatId \in ALLOWED_CHAT_IDS

\* ------------------------------------------------------------ markup converter
charAt(s, i) == SubSeq(s, i, i)

matchAt(s, i, p) == i >= 1 /\ i + Len(p) - 1 <= Len(s) /\ SubSeq(s, i, i + Len(p) - 1) = p

\* s.indexOf(p, from), 1-based; 0 when p does not occur at or after from
indexOfFrom(s, p, from) ==
    IF \E j \in from..Len(s) : matchAt(s, j, p)
    THEN CHOOSE j \in from..Len(s) :
            matchAt(s, j, p) /\ \A k \in from..(j - 1) : ~matchAt(s, k, p)
    ELSE 0

\* the least number of a non-empty set of numbers
least(S) == CHOOSE k \in S : \A m \in S : k <= m

\* str.replace(/ch/g, rep) for a one-character ch: from one occurrence to
\* the next
RECURSIVE replaceAllChar(_, _, _)
replaceAllChar(s, ch, rep) ==
    LET j == indexOfFrom(s, ch, 1)
    IN  IF j = 0 THEN s
        ELSE SubSeq(s, 1, j - 1) \o rep
             \o replaceAllChar(SubSeq(s, j + 1, Len(s)), ch, rep)

\* '&' replaced by &amp; unless it begins an entity
RECURSIVE escapeAmpOutsideEntities(_)
escapeAmpOutsideEntities(s) ==
    LET j == indexOfFrom(s, "&", 1)
    IN  IF j = 0 THEN s
        ELSE SubSeq(s, 1, j - 1)
             \o (IF \E e \in {"&lt;", "&gt;", "&amp;"} : matchAt(s, j, e)
                 THEN "&" ELSE "&amp;")
             \o escapeAmpOutsideEntities(SubSeq(s, j + 1, Len(s)))

\* escapeHtml that passes entities through
escapeHtmlKeepEntities(str) ==
    replaceAllChar(replaceAllChar(escapeAmpOutsideEntities(str), "<", "&lt;"),
                   ">", "&gt;")

\* escapeHtml that leaves the angle brackets
escapeHtmlAmpOnly(str) == replaceAllChar(str, "&", "&amp;")

escapeHtml(str) ==
    replaceAllChar(replaceAllChar(replaceAllChar(str, "&", "&amp;"), "<", "&lt;"),
                   ">", "&gt;")

\* the back-tick
BT == "^"
Fence == BT \o BT \o BT

\* \w
IsWordChar(ch) ==
    \/ \E i \in 1..Len(Upper) : charAt(Upper, i) = ch
    \/ \E i \in 1..Len(Lower) : charAt(Lower, i) = ch
    \/ \E i \in 1..Len(Digits) : charAt(Digits, i) = ch
    \/ ch = "_"

\* first position at or after i that holds no word character
RECURSIVE skipWord(_, _)
skipWord(s, i) ==
    IF i <= Len(s) /\ IsWordChar(charAt(s, i)) THEN skipWord(s, i + 1) ELSE i

\* /```(\w*)\n?([\s\S]*?)```/ tried at position i: where the code starts
\* (after the language tag and one line feed), and where the closing fence
\* starts, 0 when the pattern does not match at i
codeStart(s, i) ==
    LET w == skipWord(s, i + 3)
    IN  IF matchAt(s, w, "\n") THEN w + 1 ELSE w

fenceClose(s, i) ==
    IF matchAt(s, i, Fence) THEN indexOfFrom(s, Fence, codeStart(s, i)) ELSE 0

\* the <pre><code> block of the match at i
codeBlock(s, i) ==
    "<pre><code>" \o escapeHtml(trim(SubSeq(s, codeStart(s, i), fenceClose(s, i) - 1)))
    \o "</code></pre>"

\* result.replace(/```(\w*)\n?([\s\S]*?)```/g, ...), scanning from position i:
\* acc is the text produced so far, blocks the codeBlocks array.
RECURSIVE extractCodeBlocks(_, _, _, _)
extractCodeBlocks(s, i, acc, blocks) ==
    LET opens == {k \in i..Len(s) : fenceClose(s, k) # 0}
        k == least(opens)
    IN  IF opens = {} THEN [result |-> acc \o SubSeq(s, i, Len(s)), codes |-> blocks]
        ELSE extractCodeBlocks(s, fenceClose(s, k) + 3,
                acc \o SubSeq(s, i, k - 1)
                    \o "<<<CODEBLOCK" \o ToStr(Len(blocks)) \o ">>>",
                Append(blocks, codeBlock(s, k)))

\* /`([^`]+)`/ tried at position i: where the closing back-tick is, 0 when
\* the pattern does not match at i
inlineClose(s, i) ==
    LET j == IF matchAt(s, i, BT) THEN indexOfFrom(s, BT, i + 1) ELSE 0
    IN  IF j > i + 1 THEN j ELSE 0

\* the <code> span of the match at i
inlineCode(s, i) ==
    "<code>" \o escapeHtml(SubSeq(s, i + 1, inlineClose(s, i) - 1)) \o "</code>"

\* result.replace(/`([^`]+)`/g, ...)
RECURSIVE extractInlineCodes(_, _, _, _)
extractInlineCodes(s, i, acc, codes) ==
    LET opens == {k \in i..Len(s) : inlineClose(s, k) # 0}
        k == least(opens)
    IN  IF opens = {} THEN [result |-> acc \o SubSeq(s, i, Len(s)), codes |-> codes]
        ELSE extractInlineCodes(s, inlineClose(s, k) + 1,
                acc \o SubSeq(s, i, k - 1)
                    \o "<<<INLINECODE" \o ToStr(Len(codes)) \o ">>>",
                Append(codes, inlineCode(s, k)))

\* The end of the lazy group of /d(.+?)d/ opened by the delimiter at i: the
\* first position k of a closing d with at least one character, none of them
\* a line terminator, between the two; 0 when there is none.
lazyClose(s, i, d) ==
    LET from == i + Len(d) + 1
        ok(k) == /\ matchAt(s, k, d)
                 /\ \A m \in (i + Len(d))..(k - 1) : charAt(s, m) \notin {"\n", "\r"}
    IN  IF matchAt(s, i, d) /\ \E k \in from..Len(s) : ok(k)
        THEN CHOOSE k \in from..Len(s) : ok(k) /\ \A m \in from..(k - 1) : ~ok(m)
        ELSE 0

\* result.replace(/d(.+?)d/g, '<tag>$1</tag>')
RECURSIVE replacePaired(_, _, _, _, _)
replacePaired(s, i, acc, d, tag) ==
    LET opens == {o \in i..Len(s) : lazyClose(s, o, d) # 0}
        o == least(opens)
        k == lazyClose(s, o, d)
    IN  IF opens = {} THEN acc \o SubSeq(s, i, Len(s))
        ELSE replacePaired(s, k + Len(d),
                acc \o SubSeq(s, i, o - 1) \o "<" \o tag \o ">"
                    \o SubSeq(s, o + Len(d), k - 1) \o "</" \o tag \o ">", d, tag)

\* The replacement text of String.prototype.replace with a string pattern:
\* $$ is a dollar, $& the match, $` the text before it, $' the text after it.
RECURSIVE getSubstitution(_, _, _, _)
getSubstitution(rep, matched, before, after) ==
    LET j == indexOfFrom(rep, "$", 1)
        plain == SubSeq(rep, 1, j - 1)
        rest(n) == getSubstitution(SubSeq(rep, j + n, Len(rep)), matched, before, after)
    IN  IF j = 0 THEN rep
        ELSE IF matchAt(rep, j, "$$") THEN plain \o "$" \o rest(2)
        ELSE IF matchAt(rep, j, "$&") THEN plain \o matched \o rest(2)
        ELSE IF matchAt(rep, j, "$" \o BT) THEN plain \o before \o rest(2)
        ELSE IF matchAt(rep, j, "$'") THEN plain \o after \o rest(2)
        ELSE plain \o "$" \o rest(1)

\* result.replace(pattern, rep) with a string pattern: the first occurrence
replaceFirst(s, pattern, rep) ==
    LET j == indexOfFrom(s, pattern, 1)
    IN  IF j = 0 THEN s
        ELSE LET before == SubSeq(s, 1, j - 1)
                 after == SubSeq(s, j + Len(pattern), Len(s))
             IN  before \o getSubstitution(rep, pattern, before, after) \o after

\* codes.forEach((code, index) => result = result.replace(`&lt;..name${index}..&gt;`, code))
RECURSIVE restorePlaceholders(_, _, _, _)
restorePlaceholders(s, name, codes, index) ==
    IF index >= Len(codes) THEN s
    ELSE restorePlaceholders(
            replaceFirst(s, "&lt;&lt;&lt;" \o name \o ToStr(index) \o "&gt;&gt;&gt;",
                         codes[index + 1]),
            name, codes, index + 1)

\* markdownToTelegramHtml that only escapes
markdownEscapedOnly(text) == escapeHtml(text)

markdownToTelegramHtml(text) ==
    LET cb == extractCodeBlocks(text, 1, "", <<>>)
        ic == extractInlineCodes(cb.result, 1, "", <<>>)
        escaped == escapeHtml(ic.result)
        bold == replacePaired(escaped, 1, "", "**", "b")
        italic == replacePaired(bold, 1, "", "*", "i")
        underline == replacePaired(italic, 1, "", "__", "u")
        strike == replacePaired(underline, 1, "", "~~", "s")
        restored == restorePlaceholders(strike, "CODEBLOCK", cb.codes, 0)
    IN  restorePlaceholders(restored, "INLINECODE", ic.codes, 0)

\* The converter of hooks/send-to-telegram.js: the same steps with the
\* placeholders __CODE_BLOCK_n__ and __INLINE_CODE_n__.
RECURSIVE extractCodeBlocksV1(_, _, _, _)
extractCodeBlocksV1(s, i, acc, blocks) ==
    LET opens == {k \in i..Len(s) : fenceClose(s, k) # 0}
        k == least(opens)
    IN  IF opens = {} THEN [result |-> acc \o SubSeq(s, i, Len(s)), codes |-> blocks]
        ELSE extractCodeBlocksV1(s, fenceClose(s, k) + 3,
                acc \o SubSeq(s, i, k - 1)
                    \o "__CODE_BLOCK_" \o ToStr(Len(blocks)) \o "__",
                Append(blocks, codeBlock(s, k)))

RECURSIVE extractInlineCodesV1(_, _, _, _)
extractInlineCodesV1(s, i, acc, codes) ==
    LET opens == {k \in i..Len(s) : inlineClose(s, k) # 0}
        k == least(opens)
    IN  IF opens = {} THEN [result |-> acc \o SubSeq(s, i, Len(s)), codes |-> codes]
        ELSE extractInlineCodesV1(s, inlineClose(s, k) + 1,
                acc \o SubSeq(s, i, k - 1)
                    \o "__INLINE_CODE_" \o ToStr(Len(codes)) \o "__",
                Append(codes, inlineCode(s, k)))

\* codes.forEach((code, index) => result = result.replace(`__name${index}__`, code))
RECURSIVE restorePlaceholdersV1(_, _, _, _)
restorePlaceholdersV1(s, name, codes, index) ==
    IF index >= Len(codes) THEN s
    ELSE restorePlaceholdersV1(
            replaceFirst(s, "__" \o name \o ToStr(index) \o "__", codes[index + 1]),
            name, codes, index + 1)

markdownToTelegramHtmlV1(text) ==
    LET cb == extractCodeBlocksV1(text, 1, "", <<>>)
        ic == extractInlineCodesV1(cb.result, 1, "", <<>>)
        escaped == escapeHtml(ic.result)
        bold == replacePaired(escaped, 1, "", "**", "b")
        italic == replacePaired(bold, 1, "", "*", "i")
        underline == replacePaired(italic, 1, "", "__", "u")
        strike == replacePaired(underline, 1, "", "~~", "s")
        restored == restorePlaceholdersV1(strike, "CODE_BLOCK_", cb.codes, 0)
    IN  restorePlaceholdersV1(restored, "INLINE_CODE_", ic.codes, 0)

\* ------------------------------------------------------------ replies
\* The chat texts are localized literals of the source; a reply is named
\* by its template and the values spliced into it.
MAX_MESSAGE_LENGTH == 4000

slice(str, n) == SubSeq(str, 1, IF Len(str) < n THEN Len(str) ELSE n)

\* an empty denylist
BLOCKED_COMMANDS_Empty == {}

BLOCKED_COMMANDS ==
    {"/mcp", "/help", "/config", "/settings", "/model", "/vim", "/terminal-setup"}

Untitled == "(untitled)"

\* pane?.title || '(untitled)' for the pane of that id in a listing
titleIn(listed, paneId) ==
    IF paneId \in listed /\ PaneTitle(paneId) # "" THEN PaneTitle(paneId)
    ELSE Untitled

\* the lines of the /panes reply, in the order of the listing
RECURSIVE paneLines(_, _, _)
paneLines(order, listed, currentPaneId) ==
    IF order = <<>> THEN ""
    ELSE (IF Head(order) \in listed
          THEN "<b>" \o Head(order) \o "</b>"
               \o (IF Head(order) = currentPaneId THEN " [selected]" ELSE "")
               \o " - " \o titleIn(listed, Head(order)) \o "\n"
          ELSE "")
         \o paneLines(Tail(order), listed, currentPaneId)

await(c, label) == [c EXCEPT !.q.pc = label]

respond(c, status, body) ==
    [c EXCEPT !.q.status = status, !.q.resp = body, !.q.nresp = @ + 1,
              !.q.pc = "done"]

\* ------------------------------------------------------------ command router
\* case '/setpane'
setpane(c, chatId, args) ==
    LET paneId == trim(args)
        c1 == getWeztermPanes(c)
        listed == c1.ret
    IN  IF trim(args) = ""
        THEN await(sendMessage(c, chatId, Msg("setpaneUsage", <<>>)), "cmd_reply")
        ELSE IF paneId \notin listed
        THEN await(sendMessage(c1, chatId, Msg("paneNotFound", <<paneId>>)), "cmd_reply")
        ELSE await(sendMessage(saveSelectedPaneId(c1, paneId), chatId,
                               Msg("paneSelected", <<paneId, titleIn(listed, paneId)>>)),
                   "cmd_reply")

handleCommand(c0, chatId, command, args) ==
    LET c == saveChatId(enter(c0, "handleCommand"), chatId)
    IN  CASE command \in {"/start", "/help"} ->
               await(sendMessage(c, chatId, Msg("help", <<>>)), "cmd_reply")
          [] command = "/panes" ->
               LET c1 == getWeztermPanes(c)
                   listed == c1.ret
                   c2 == findClaudePaneId(c1)
               IN  IF listed = {}
                   THEN await(sendMessage(c1, chatId, Msg("noPanes", <<>>)), "cmd_reply")
                   ELSE await(sendMessage(c2, chatId,
                                Msg("paneList", <<paneLines(<<"3", "5">>, listed, c2.ret),
                                                  c2.ret>>)), "cmd_reply")
          [] command = "/setpane" -> setpane(c, chatId, args)
          [] command = "/status" ->
               LET c1 == getWeztermPanes(c)
                   listed == c1.ret
                   c2 == findClaudePaneId(c1)
                   muteStatus == IF c.isMuted THEN "muted" ELSE "notifying"
                   weztermStatus == IF Cardinality(listed) > 0
                                    THEN "connected:" \o ToStr(Cardinality(listed))
                                    ELSE "disconnected"
               IN  IF c2.ret # None
                   THEN await(sendMessage(c2, chatId,
                                Msg("statusReady", <<weztermStatus, c2.ret,
                                                     titleIn(listed, c2.ret), muteStatus>>)),
                              "cmd_reply")
                   ELSE await(sendMessage(c2, chatId,
                                Msg("statusNoPane", <<weztermStatus, muteStatus>>)),
                              "cmd_reply")
          [] command = "/mute" ->
               await(sendMessage([c EXCEPT !.isMuted = TRUE], chatId, Msg("muted", <<>>)),
                     "cmd_reply")
          [] command = "/unmute" ->
               await(sendMessage([c EXCEPT !.isMuted = FALSE], chatId, Msg("unmuted", <<>>)),
                     "cmd_reply")
          [] command = "/refresh" ->
               await(telegramApi(c, "setMyCommands", None, Msg("commands", <<>>), None),
                     "refresh_setup")
          [] command = "/stop" ->
               LET c1 == weztermSendEscape(c)
               IN  IF c1.ret
                   THEN await(sendMessage(c1, chatId, Msg("stopSent", <<>>)), "stop_reply")
                   ELSE await(sendMessage(c1, chatId, Msg("stopFailed", <<>>)), "stop_reply")
          [] command \in {"/clear", "/resume"} ->
               LET c1 == findClaudePaneId(c)
                   c2 == weztermSendText(c1, command)
               IN  IF c1.ret = None
                   THEN await(sendMessage(c1, chatId, Msg("noPaneShort", <<>>)), "cmd_reply")
                   ELSE IF c2.exc # None THEN c2
                   ELSE await(sendMessage(c2, chatId,
                                Msg(IF command = "/clear" THEN "cleared" ELSE "resuming",
                                    <<>>)), "cmd_reply")
          [] OTHER ->
               IF \E cmd \in BLOCKED_COMMANDS : startsWith(command, cmd)
               THEN await(sendMessage(c, chatId, Msg("blockedCommand", <<command>>)),
                          "cmd_reply")
               ELSE await(sendMessage(c, chatId, Msg("unknownCommand", <<command>>)),
                          "cmd_reply")

handleMessage(c0, chatId, text) ==
    LET c == saveChatId(enter(c0, "handleMessage"), chatId)
        c1 == findClaudePaneId(c)
        c2 == startTypingLoop(c1, chatId)
        c3 == weztermSendText(c2, text)
    IN  IF c1.ret = None
        THEN await(sendMessage(c1, chatId, Msg("noPaneGuide", <<>>)), "cmd_reply")
        ELSE IF \E cmd \in BLOCKED_COMMANDS : startsWith(toLowerCase(text), cmd)
        THEN await(sendMessage(c1, chatId, Msg("blockedText", <<>>)), "cmd_reply")
        ELSE IF c3.exc # None
        THEN await(sendMessage(stopTypingLoop([c3 EXCEPT !.exc = None]), chatId,
                               Msg("error", <<c3.exc>>)), "cmd_reply")
        ELSE c3

\* ------------------------------------------------------------ chat webhook
\* the webhook handler without its catch block: the exception escapes
webhookUncaught(c) == c

webhookCatch(c) == respond([c EXCEPT !.exc = None], 500, "Internal Server Error")

\* if (update.callback_query) { ... } up to its first await, else the 200
callbackPart(c) ==
    LET cq == c.q.body.callback_query
    IN  IF ~cq.present THEN respond(c, 200, "OK")
        ELSE IF ~isAuthorized(cq.chat)
        THEN await(telegramApi(c, "answerCallbackQuery", None,
                               Msg("unauthorizedAlert", <<>>), None), "cb_unauth")
        ELSE await(telegramApi(c, "answerCallbackQuery", None, Msg("ack", <<>>), None),
                   "cb_ack")

\* where a handler that came back goes on: into the catch block, to its
\* await, or to the rest of the try block
afterMessage(c) ==
    IF c.exc # None THEN webhookCatch(c)
    ELSE IF c.q.pc # "run" THEN c
    ELSE callbackPart(c)

handleTelegramWebhook(c) ==
    LET update == c.q.body
        chatId == update.message.chat
        text == update.message.text
    IN  IF ~update.parsable THEN webhookCatch(throw(c, "SyntaxError"))
        ELSE IF ~update.message.present THEN callbackPart(c)
        ELSE IF chatId = None THEN webhookCatch(throw(c, "TypeError"))
        ELSE IF ~isAuthorized(chatId)
        THEN await(sendMessage(c, chatId, Msg("notAuthorized", <<chatId>>)),
                   "unauth_reply")
        ELSE IF startsWith(text, "/")
        THEN afterMessage(handleCommand(c, chatId, toLowerCase(splitCommand(text)),
                                        splitArgs(text)))
        ELSE IF trim(text) # ""
        THEN afterMessage(handleMessage(c, chatId, text))
        ELSE callbackPart(c)

\* the handler resumed after the await it was suspended in
resumeTelegramWebhook(c) ==
    LET pc == c.q.pc
        run == [c EXCEPT !.q.pc = "run"]
        chatId == c.q.body.message.chat
        cq == c.q.body.callback_query
        sessionId == replaceFirst(cq.data, "resume:", "")
        sent == weztermSendText(run, "/resume " \o sessionId)
    IN  CASE pc \in {"unauth_reply", "cb_unauth", "cb_reply"} -> respond(run, 200, "OK")
          [] pc = "cmd_reply" -> callbackPart(run)
          [] pc = "refresh_setup" ->
               await(sendMessage(run, chatId, Msg("refreshed", <<>>)), "cmd_reply")
          [] pc = "stop_reply" -> callbackPart(stopTypingLoop(run))
          [] pc = "cb_ack" ->
               IF cq.data = None THEN webhookCatch(throw(run, "TypeError"))
               ELSE IF ~startsWith(cq.data, "resume:") THEN respond(run, 200, "OK")
               ELSE IF sent.exc # None THEN webhookCatch(sent)
               ELSE await(sendMessage(sent, cq.chat, Msg("resumingSession", <<sessionId>>)),
                          "cb_reply")

\* ------------------------------------------------------------ completion hook
hookCatch(c) == respond([c EXCEPT !.exc = None], 500, "{ok:false,error:message}")

hookHeader(cwd, sessionId) ==
    "<code>(dir) " \o (IF cwd = "" THEN "unknown-dir" ELSE cwd) \o "</code>\n"
    \o "<code>(session) " \o (IF sessionId = "" THEN "unknown-session" ELSE sessionId)
    \o "</code>\n\n"

\* the first telegramApi call of sendMessageWithFallback
sendMessageWithFallback(c, chatId, text) ==
    telegramApi(c, "sendMessage", chatId,
                Msg("text", <<slice(text, MAX_MESSAGE_LENGTH)>>), "HTML")

\* hookDeliver without the chat-id check
hookDeliverAnywhere(c1) ==
    LET data == c1.q.body
        c2 == getChatId(c1)
        htmlMessage == hookHeader(data.cwd, data.sessionId)
                       \o markdownToTelegramHtml(data.message)
    IN  IF data.message = "" THEN respond(c2, 200, "{ok:true,empty:true}")
        ELSE await(sendMessageWithFallback(c2, c2.ret, htmlMessage), "hook_send")

\* the try block from "Get chat ID" to the await of the send
hookDeliver(c1) ==
    LET data == c1.q.body
        c2 == getChatId(c1)
        chatId == c2.ret
        htmlMessage == hookHeader(data.cwd, data.sessionId)
                       \o markdownToTelegramHtml(data.message)
    IN  IF chatId = None \/ chatId = ""
        THEN respond(c2, 400, "{ok:false,error:No chat ID}")
        ELSE IF data.message = "" THEN respond(c2, 200, "{ok:true,empty:true}")
        ELSE await(sendMessageWithFallback(c2, chatId, htmlMessage), "hook_send")

\* handleHookRequest without the mute check
handleHookRequestUnmuted(c) ==
    LET data == c.q.body
    IN  IF ~data.parsable THEN hookCatch(throw(c, "SyntaxError"))
        ELSE IF data.isNull THEN hookCatch(throw(c, "TypeError"))
        ELSE hookDeliver(stopTypingLoop(c))

\* handleHookRequest without its stopTypingLoop call
handleHookRequestKeepTyping(c) ==
    LET data == c.q.body
    IN  IF ~data.parsable THEN hookCatch(throw(c, "SyntaxError"))
        ELSE IF data.isNull THEN hookCatch(throw(c, "TypeError"))
        ELSE IF c.isMuted THEN respond(c, 200, "{ok:true,muted:true}")
        ELSE hookDeliver(c)

handleHookRequest(c) ==
    LET data == c.q.body
        c1 == stopTypingLoop(c)
    IN  IF ~data.parsable THEN hookCatch(throw(c, "SyntaxError"))
        ELSE IF data.isNull THEN hookCatch(throw(c, "TypeError"))
        ELSE IF c1.isMuted THEN respond(c1, 200, "{ok:true,muted:true}")
        ELSE hookDeliver(c1)

\* the handler resumed with the chat platform's answer to its send: "ok",
\* "unparsable" ({ok:false, description: can't parse entities}), "rejected"
\* ({ok:false} with another description) or "network" (fetch threw)
resumeHookRequest(c, answer) ==
    LET pc == c.q.pc
        run == [c EXCEPT !.q.pc = "run", !.q.answers = Append(@, answer)]
        first == c.q.out[1]
    IN  IF answer = "ok" THEN respond(run, 200, "{ok:true}")
        ELSE IF pc = "hook_send"
        THEN await(telegramApi(run, "sendMessage", first.chat_id, first.text, None),
                   "hook_retry")
        ELSE IF answer \in {"unparsable", "rejected"}
        THEN respond(run, 500, "{ok:false,error:description}")
        ELSE respond(run, 500, "{ok:false}")

\* ------------------------------------------------------------ HTTP server
\* handleRequest whose health answer does not read the mute flag
handleRequestHealthFixed(c) ==
    LET q == c.q
    IN  IF q.path = "/hook" /\ q.method = "POST" THEN handleHookRequest(c)
        ELSE IF q.method = "POST" THEN handleTelegramWebhook(c)
        ELSE IF q.path = "/health" /\ q.method = "GET"
        THEN respond(c, 200, "{ok:true,muted:false}")
        ELSE respond(c, 404, "Not Found")

handleRequest(c) ==
    LET q == c.q
    IN  IF q.path = "/hook" /\ q.method = "POST" THEN handleHookRequest(c)
        ELSE IF q.method = "POST" THEN handleTelegramWebhook(c)
        ELSE IF q.path = "/health" /\ q.method = "GET"
        THEN respond(c, 200, IF c.isMuted THEN "{ok:true,muted:true}"
                             ELSE "{ok:true,muted:false}")
        ELSE respond(c, 404, "Not Found")

\* ------------------------------------------------------------ src/bridge.js
\* /setpane that saves the id without looking at the listing
setpaneUnchecked(c, chatId, args) ==
    LET paneId == trim(args)
        c1 == getWeztermPanes(c)
    IN  IF trim(args) = ""
        THEN await(sendMessage(c, chatId, Msg("setpaneUsage", <<>>)), "cmd_reply")
        ELSE await(sendMessage(saveSelectedPaneId(c1, paneId), chatId,
                               Msg("paneSelected", <<paneId, titleIn(c1.ret, paneId)>>)),
                   "cmd_reply")

\* case '/setpane'
setpaneV1(c, chatId, args) ==
    LET paneId == trim(args)
        c1 == getWeztermPanes(c)
        listed == c1.ret
    IN  IF trim(args) = ""
        THEN await(sendMessage(c, chatId, Msg("setpaneUsage", <<>>)), "cmd_reply")
        ELSE IF paneId \notin listed
        THEN await(sendMessage(c1, chatId, Msg("paneNotFound", <<paneId>>)), "cmd_reply")
        ELSE await(sendMessage(saveSelectedPaneId(c1, paneId), chatId,
                               Msg("paneSelected", <<paneId, titleIn(listed, paneId)>>)),
                   "cmd_reply")

handleCommandV1(c0, chatId, command, args) ==
    LET c == saveChatId(enter(c0, "handleCommand"), chatId)
    IN  CASE command \in {"/start", "/help"} ->
               await(sendMessage(c, chatId, Msg("help", <<>>)), "cmd_reply")
          [] command = "/panes" ->
               LET c1 == getWeztermPanes(c)
                   listed == c1.ret
                   c2 == findClaudePaneId(c1)
               IN  IF listed = {}
                   THEN await(sendMessage(c1, chatId, Msg("noPanes", <<>>)), "cmd_reply")
                   ELSE await(sendMessage(c2, chatId,
                                Msg("paneList", <<paneLines(<<"3", "5">>, listed, c2.ret),
                                                  c2.ret>>)), "cmd_reply")
          [] command = "/setpane" -> setpaneV1(c, chatId, args)
          [] command = "/status" ->
               LET c1 == getWeztermPanes(c)
                   listed == c1.ret
                   c2 == findClaudePaneId(c1)
               IN  IF c2.ret # None
                   THEN await(sendMessage(c2, chatId,
                                Msg("statusReady", <<c2.ret, titleIn(listed, c2.ret)>>)),
                              "cmd_reply")
                   ELSE await(sendMessage(c2, chatId, Msg("statusNoPane", <<>>)),
                              "cmd_reply")
          [] command = "/refresh" ->
               await(telegramApi(c, "setMyCommands", None, Msg("commands", <<>>), None),
                     "refresh_setup")
          [] command = "/stop" ->
               LET c1 == weztermSendEscape(c)
               IN  IF c1.ret
                   THEN await(sendMessage(c1, chatId, Msg("stopSent", <<>>)), "stop_reply")
                   ELSE await(sendMessage(c1, chatId, Msg("stopFailed", <<>>)), "stop_reply")
          [] command \in {"/clear", "/resume"} ->
               LET c1 == findClaudePaneId(c)
                   c2 == weztermSendTextV1(c1, command)
               IN  IF c1.ret = None
                   THEN await(sendMessage(c1, chatId, Msg("noPaneShort", <<>>)), "cmd_reply")
                   ELSE IF c2.exc # None THEN c2
                   ELSE await(sendMessage(c2, chatId,
                                Msg(IF command = "/clear" THEN "cleared" ELSE "resuming",
                                    <<>>)), "cmd_reply")
          [] OTHER ->
               IF \E cmd \in BLOCKED_COMMANDS : startsWith(command, cmd)
               THEN await(sendMessage(c, chatId, Msg("blockedCommand", <<command>>)),
                          "cmd_reply")
               ELSE await(sendMessage(c, chatId, Msg("unknownCommand", <<command>>)),
                          "cmd_reply")

\* handleMessage without its catch block: the dispatch error escapes
handleMessageV1Uncaught(c0, chatId, text) ==
    LET c == saveChatId(enter(c0, "handleMessage"), chatId)
        c1 == findClaudePaneId(c)
        c2 == startTypingLoop(setPending(c1), chatId)
    IN  IF c1.ret = None
        THEN await(sendMessage(c1, chatId, Msg("noPaneGuide", <<>>)), "cmd_reply")
        ELSE IF \E cmd \in BLOCKED_COMMANDS : startsWith(toLowerCase(text), cmd)
        THEN await(sendMessage(c1, chatId, Msg("blockedText", <<>>)), "cmd_reply")
        ELSE weztermSendTextV1(c2, text)

handleMessageV1(c0, chatId, text) ==
    LET c == saveChatId(enter(c0, "handleMessage"), chatId)
        c1 == findClaudePaneId(c)
        c2 == startTypingLoop(setPending(c1), chatId)
        c3 == weztermSendTextV1(c2, text)
    IN  IF c1.ret = None
        THEN await(sendMessage(c1, chatId, Msg("noPaneGuide", <<>>)), "cmd_reply")
        ELSE IF \E cmd \in BLOCKED_COMMANDS : startsWith(toLowerCase(text), cmd)
        THEN await(sendMessage(c1, chatId, Msg("blockedText", <<>>)), "cmd_reply")
        ELSE IF c3.exc # None
        THEN await(sendMessage(clearPending(stopTypingLoop([c3 EXCEPT !.exc = None])),
                               chatId, Msg("error", <<c3.exc>>)), "cmd_reply")
        ELSE c3

callbackPartV1(c) ==
    LET cq == c.q.body.callback_query
    IN  IF ~cq.present THEN respond(c, 200, "OK")
        ELSE await(telegramApi(c, "answerCallbackQuery", None, Msg("ack", <<>>), None),
                   "cb_ack")

afterMessageV1(c) ==
    IF c.exc # None THEN webhookCatch(c)
    ELSE IF c.q.pc # "run" THEN c
    ELSE callbackPartV1(c)

handleWebhook(c) ==
    LET update == c.q.body
        chatId == update.message.chat
        text == update.message.text
    IN  IF c.q.method # "POST" THEN respond(c, 405, "Method Not Allowed")
        ELSE IF ~update.parsable THEN webhookCatch(throw(c, "SyntaxError"))
        ELSE IF ~update.message.present THEN callbackPartV1(c)
        ELSE IF chatId = None THEN webhookCatch(throw(c, "TypeError"))
        ELSE IF startsWith(text, "/")
        THEN afterMessageV1(handleCommandV1(c, chatId, toLowerCase(splitCommand(text)),
                                            splitArgs(text)))
        ELSE IF trim(text) # ""
        THEN afterMessageV1(handleMessageV1(c, chatId, text))
        ELSE callbackPartV1(c)

resumeWebhook(c) ==
    LET pc == c.q.pc
        run == [c EXCEPT !.q.pc = "run"]
        chatId == c.q.body.message.chat
        cq == c.q.body.callback_query
        sessionId == replaceFirst(cq.data, "resume:", "")
        sent == weztermSendTextV1(run, "/resume " \o sessionId)
    IN  CASE pc = "cb_reply" -> respond(run, 200, "OK")
          [] pc = "cmd_reply" -> callbackPartV1(run)
          [] pc = "refresh_setup" ->
               await(sendMessage(run, chatId, Msg("refreshed", <<>>)), "cmd_reply")
          [] pc = "stop_reply" -> callbackPartV1(clearPending(stopTypingLoop(run)))
          [] pc = "cb_ack" ->
               IF cq.data = None THEN webhookCatch(throw(run, "TypeError"))
               ELSE IF ~startsWith(cq.data, "resume:") THEN respond(run, 200, "OK")
               ELSE IF sent.exc # None THEN webhookCatch(sent)
               ELSE await(sendMessage(sent, cq.chat, Msg("resumingSession", <<sessionId>>)),
                          "cb_reply")

\* ------------------------------------------------------------ hooks/send-to-telegram.js
\* The hook script is a process of its own: the assistant starts it on each
\* of its events, and it shares the chat id file and the pending marker with
\* the bridge.
PENDING_TIMEOUT_MS == 10 * 60 * 1000

\* a number, or NaN
Num(n) == [nan |-> FALSE, n |-> n]
NaN == [nan |-> TRUE, n |-> 0]

IsDigit(ch) == \E i \in 1..Len(Digits) : SubSeq(Digits, i, i) = ch

\* the value of a string of digits
RECURSIVE ToNum(_)
ToNum(s) ==
    IF s = "" THEN 0
    ELSE ToNum(SubSeq(s, 1, Len(s) - 1)) * 10
         + (indexOfChar(Digits, SubSeq(s, Len(s), Len(s))) - 1)

\* parseInt(s, 10) of an unsigned text: the digits after the leading white
\* space, NaN when there are none
parseInt(s) ==
    LET t == trimStart(s)
        ends == {k \in 0..Len(t) : \A i \in 1..k : IsDigit(SubSeq(t, i, i))}
        k == CHOOSE k \in ends : \A m \in ends : m <= k
    IN  IF k = 0 THEN NaN ELSE Num(ToNum(SubSeq(t, 1, k)))

\* isPending that does not look at the marker's age
isPendingForever(h) == h.pendingFile # <<>>

\* isPending that does not look at the marker
isPendingAlways(h) == TRUE

isPending(h) ==
    IF h.pendingFile = <<>> THEN FALSE
    ELSE LET timestamp == parseInt(h.pendingFile[1])
         IN  IF timestamp.nan THEN FALSE
             ELSE now - timestamp.n < PENDING_TIMEOUT_MS

\* textParts.join('\n')
RECURSIVE joinLines(_)
joinLines(parts) ==
    IF parts = <<>> THEN ""
    ELSE IF Len(parts) = 1 THEN parts[1]
    ELSE parts[1] \o "\n" \o joinLines(Tail(parts))

\* A transcript line is no JSON (json = FALSE) or an entry with a type and,
\* when has = TRUE, a message whose content is an array of blocks
\* (kind = "array"), a string (kind = "string") or something else.
RECURSIVE textsOf(_)
textsOf(blocks) ==
    IF blocks = <<>> THEN <<>>
    ELSE (IF Head(blocks).type = "text" /\ Head(blocks).text # ""
          THEN <<Head(blocks).text>> ELSE <<>>) \o textsOf(Tail(blocks))

\* the textParts of one entry
textParts(entry) ==
    IF entry.kind = "array" THEN textsOf(entry.blocks)
    ELSE IF entry.kind = "string" THEN <<entry.text>>
    ELSE <<>>

\* the body of the for loop: the entry of line i gives the message
gives(lines, i) ==
    /\ lines[i].json /\ lines[i].type = "assistant" /\ lines[i].has
    /\ Len(textParts(lines[i])) > 0

\* extractLastAssistantMessage that stops at the last assistant entry
extractLastEntry(transcript) ==
    LET lines == transcript.lines
        found == {i \in 1..Len(lines) : lines[i].json /\ lines[i].type = "assistant"}
        last == CHOOSE i \in found : \A j \in found : j <= i
    IN  IF ~transcript.exists \/ found = {} THEN None
        ELSE IF lines[last].has /\ Len(textParts(lines[last])) > 0
        THEN joinLines(textParts(lines[last]))
        ELSE None

\* for (let i = lines.length - 1; i >= 0; i--): from line i down
RECURSIVE scanFrom(_, _)
scanFrom(lines, i) ==
    IF i = 0 THEN None
    ELSE IF gives(lines, i) THEN joinLines(textParts(lines[i]))
    ELSE scanFrom(lines, i - 1)

\* a transcript is a file that exists or not, and its lines; None is the
\* null the function returns
extractLastAssistantMessage(transcript) ==
    IF ~transcript.exists THEN None
    ELSE scanFrom(transcript.lines, Len(transcript.lines))

\* the hook process: its place (pc), its stdin (input), the marker and the
\* clock it saw in isPending (marker, at), the forwarded texts that had no
\* completion yet when it started (unanswered), whether it came to the extraction
\* (passed), the message it extracted, its sendMessage calls (out), the
\* answers to them (answers) and its exit code
NoInput ==
    [parsable |-> FALSE, hook_event_name |-> None, token |-> FALSE,
     transcript_path |-> None, transcript |-> [exists |-> FALSE, lines |-> <<>>]]
NoHook ==
    [pc |-> "none", input |-> NoInput, marker |-> <<>>, at |-> 0, unanswered |-> 0,
     passed |-> FALSE, message |-> None, out |-> <<>>, answers |-> <<>>, code |-> 0]

\* what a stretch of main works on: the process and the files it shares
HookCtx(h) == [h |-> h, pendingFile |-> pendingFile, chatFile |-> chatFile, ret |-> None]

exit(c, code) == [c EXCEPT !.h.pc = "exited", !.h.code = code]

\* one fetch of sendTelegramMessage, up to its await
sendTelegramMessage(c, chatId, text, parseMode) ==
    [c EXCEPT !.h.out = Append(@, [method |-> "sendMessage", chat_id |-> chatId,
                                   text |-> slice(text, MAX_MESSAGE_LENGTH),
                                   parse_mode |-> parseMode]),
              !.h.pc = IF parseMode = "HTML" THEN "send" ELSE "retry"]

\* main from its start to the await of the send, or to its exit
main(c0, input) ==
    LET c == [c0 EXCEPT !.h = [NoHook EXCEPT !.pc = "run", !.input = input,
                                            !.marker = c0.pendingFile, !.at = now,
                                            !.unanswered = outstanding]]
        c1 == getChatId(c)
        chatId == c1.ret
        c2 == [c1 EXCEPT !.h.passed = TRUE]
        message == extractLastAssistantMessage(input.transcript)
    IN  IF ~input.parsable THEN exit(c, 1)
        ELSE IF input.hook_event_name # "Stop" THEN exit(c, 0)
        ELSE IF ~isPending(c) THEN exit(c, 0)
        ELSE IF chatId = None \/ chatId = "" THEN exit(c1, 1)
        ELSE IF ~input.token THEN exit(c1, 1)
        ELSE IF input.transcript_path = None THEN exit(c1, 1)
        ELSE IF message = None \/ message = "" THEN exit(clearPending(c2), 0)
        ELSE sendTelegramMessage([c2 EXCEPT !.h.message = message], chatId,
                                 markdownToTelegramHtmlV1(message), "HTML")

\* main resumed without its last clearPending
resumeMainKeepMarker(c0, answer) ==
    LET c == [c0 EXCEPT !.h.answers = Append(@, answer)]
        first == c.h.out[1]
    IN  IF c.h.pc = "send" /\ answer \in {"unparsable", "rejected"}
        THEN [c EXCEPT !.h.out = Append(@, [first EXCEPT !.parse_mode = None]),
                       !.h.pc = "retry"]
        ELSE exit(c, 0)

\* sendTelegramMessage and main resumed with the answer to the send: a
\* rejected HTML send is sent again without parse mode; a fetch that threw, an
\* ok, and any answer to the second send end the sending, and main clears
\* the marker and ends
resumeMain(c0, answer) ==
    LET c == [c0 EXCEPT !.h.answers = Append(@, answer)]
        first == c.h.out[1]
    IN  IF c.h.pc = "send" /\ answer \in {"unparsable", "rejected"}
        THEN [c EXCEPT !.h.out = Append(@, [first EXCEPT !.parse_mode = None]),
                       !.h.pc = "retry"]
        ELSE exit(clearPending(c), 0)

\* ------------------------------------------------------------ inputs
NoMessage == [present |-> FALSE, chat |-> None, text |-> ""]
NoCallback == [present |-> FALSE, chat |-> None, data |-> None]

\* the texts the first chat sends, and the fewer the second one sends
Texts ==
    {"/help", "/panes", "/setpane", "/setpane 3", "/SetPane 5", "/status", "/mute",
     "/unmute", "/refresh", "/stop", "/clear", "/resume", "/mcp", "/foo",
     "/Config x", "/clear all", "hello", "mcp", " ", ""}
TextsOfSecondChat == {"hello", "/setpane 3", "/mute", "/stop"}

\* The bodies POSTed to the webhook: one that is no JSON, an update that
\* carries neither part, a message (one of them without its chat object),
\* or a callback query (with resume data, other data, or none).
WebhookBodies ==
    {[parsable |-> FALSE, message |-> NoMessage, callback_query |-> NoCallback],
     [parsable |-> TRUE, message |-> NoMessage, callback_query |-> NoCallback],
     [parsable |-> TRUE, message |-> [present |-> TRUE, chat |-> None, text |-> "hello"],
      callback_query |-> NoCallback]}
    \cup {[parsable |-> TRUE, message |-> [present |-> TRUE, chat |-> "111", text |-> t],
           callback_query |-> NoCallback] : t \in Texts}
    \cup {[parsable |-> TRUE, message |-> [present |-> TRUE, chat |-> "222", text |-> t],
           callback_query |-> NoCallback] : t \in TextsOfSecondChat}
    \cup {[parsable |-> TRUE, message |-> NoMessage,
           callback_query |-> [present |-> TRUE, chat |-> ch, data |-> d]] :
           ch \in Chats, d \in {"resume:abc", "noop", None}}

\* The bodies POSTed to /hook: no JSON, the JSON null, or an object.
HookBodies ==
    {[parsable |-> FALSE, isNull |-> FALSE, message |-> "", cwd |-> "", sessionId |-> ""],
     [parsable |-> TRUE, isNull |-> TRUE, message |-> "", cwd |-> "", sessionId |-> ""]}
    \cup {[parsable |-> TRUE, isNull |-> FALSE, message |-> m, cwd |-> d[1],
           sessionId |-> d[2]] :
           m \in {"", "**done**", "a<b ^x&y^"}, d \in {<<"/tmp", "abc">>, <<"", "">>}}

Answers == {"ok", "unparsable", "rejected", "network"}

\* The messages given to the markup converters: up to MaxSegments segments,
\* one after the other.
MaxSegments == 2
Segments ==
    {"a", "<", ">", "&", "&lt;", "**b**", "__u__", "~~", "^x<y^",
     "^^^js\na<b & **k**\n^^^", "^^^$$^^^", "^", "*", "<<<CODEBLOCK0>>>"}

RECURSIVE joinOf(_)
joinOf(segs) == IF segs = <<>> THEN "" ELSE Head(segs) \o joinOf(Tail(segs))

ConvTexts ==
    {joinOf(segs) : segs \in UNION {[1..n -> Segments] : n \in 0..MaxSegments}}

\* how often a converter is applied to its own output
MaxApplications == 2

\* conv: the message (text) and what the bridge's and the hook's converter
\* made of it, each application taking the output of the one before
NoConversion == [text |-> "", bridge |-> <<>>, hook |-> <<>>]

lastOr(outputs, text) == IF outputs = <<>> THEN text ELSE outputs[Len(outputs)]

NoBody == [parsable |-> FALSE]

\* The lines of a transcript: no JSON; a user entry; assistant entries with a
\* string (one of them empty), with text blocks around a tool use, with a
\* tool use alone, with an empty text block, and without a message.
Entry(type, has, kind, blocks, text) ==
    [json |-> TRUE, type |-> type, has |-> has, kind |-> kind, blocks |-> blocks,
     text |-> text]
Block(type, text) == [type |-> type, text |-> text]
InvalidLine == [Entry("", FALSE, "other", <<>>, "") EXCEPT !.json = FALSE]
DoneEntry == Entry("assistant", TRUE, "string", <<>>, "**done**")
UserEntry == Entry("user", TRUE, "string", <<>>, "hi")
ToolUseEntry == Entry("assistant", TRUE, "array", <<Block("tool_use", "")>>, "")
TranscriptLines ==
    {InvalidLine, UserEntry, DoneEntry, ToolUseEntry,
     Entry("assistant", TRUE, "string", <<>>, ""),
     Entry("assistant", TRUE, "array",
           <<Block("text", "a<b"), Block("tool_use", ""), Block("text", "c")>>, ""),
     Entry("assistant", TRUE, "array", <<Block("text", "")>>, ""),
     Entry("assistant", FALSE, "other", <<>>, "")}

\* the transcripts given to the extractor: no file, or up to MaxLines lines
MaxLines == 3
NoFile == [exists |-> FALSE, lines |-> <<>>]
File(lines) == [exists |-> TRUE, lines |-> lines]
Transcripts ==
    {NoFile} \cup {File(lines) : lines \in UNION {[1..n -> TranscriptLines] : n \in 0..MaxLines}}

\* What the assistant writes to the hook's stdin: no JSON, another event, or
\* a Stop event; for the Stop event the bot token may be unset, the
\* transcript path missing, the transcript file missing, without an
\* assistant message, or with one.
StopInput(token, path, transcript) ==
    [parsable |-> TRUE, hook_event_name |-> "Stop", token |-> token,
     transcript_path |-> path, transcript |-> transcript]
HookInputs ==
    {NoInput,
     [StopInput(TRUE, "t.jsonl", File(<<DoneEntry>>))
        EXCEPT !.hook_event_name = "Notification"],
     StopInput(FALSE, "t.jsonl", File(<<DoneEntry>>)),
     StopInput(TRUE, None, NoFile),
     StopInput(TRUE, "t.jsonl", NoFile),
     StopInput(TRUE, "t.jsonl", File(<<UserEntry, ToolUseEntry>>)),
     StopInput(TRUE, "t.jsonl", File(<<DoneEntry, UserEntry>>))}

\* the messages that reach the bridge while the hook process is looked at
HookSideBodies ==
    {[parsable |-> TRUE, message |-> [present |-> TRUE, chat |-> "111", text |-> t],
      callback_query |-> NoCallback] : t \in {"hello", "/stop"}}

\* A request: what arrived (method, path, body), the typing timer it found
\* (typingAtArrival), where its handler stands
\* (pc), what it did (out: chat-API calls, inj: keys injected into panes,
\* status, resp and nresp: the response and how many were written), and a
\* record of its run: the functions entered (calls), each pane resolution
\* (resolved), each weztermSendText call (sends), whether a shell invocation
\* failed (shellFailed), the chat platform's answers to the hook's sends
\* (answers), and its place among the other requests: it has changed the
\* session state or injected keys (changed), another request did so after it
\* first did (overlapped), and it did so again after that (raced).
IdleReq ==
    [method |-> None, path |-> None, body |-> NoBody, typingAtArrival |-> None,
     pc |-> "idle", out |-> <<>>,
     inj |-> <<>>, status |-> 0, resp |-> None, nresp |-> 0, calls |-> {},
     resolved |-> <<>>, sends |-> <<>>, shellFailed |-> FALSE, answers |-> <<>>,
     changed |-> FALSE, overlapped |-> FALSE, raced |-> FALSE]

NewReq(method, path, body) ==
    [method |-> method, path |-> path, body |-> body,
     typingAtArrival |-> typingInterval, pc |-> "run", out |-> <<>>,
     inj |-> <<>>, status |-> 0, resp |-> None, nresp |-> 0, calls |-> {},
     resolved |-> <<>>, sends |-> <<>>, shellFailed |-> FALSE, answers |-> <<>>,
     changed |-> FALSE, overlapped |-> FALSE, raced |-> FALSE]

Suspended(q) == q.pc \notin {"idle", "run", "done"}

\* ------------------------------------------------------------ state machine
\* What a segment that took the request from q to c.q means for the
\* assistant's work: handleMessage dispatched a text and its carriage
\* return (one more request outstanding), a completion callback arrived (one
\* less), or /stop interrupted it (none left).
outstandingAfter(q, c) ==
    LET entered == c.q.calls \ q.calls
    IN  IF "handleMessage" \in entered /\ Len(c.q.inj) = Len(q.inj) + 2
        THEN outstanding + 1
        ELSE IF q.pc = "idle" /\ c.q.path = "/hook" /\ c.q.method = "POST"
                /\ c.q.body.parsable /\ ~c.q.body.isNull
        THEN (IF outstanding > 0 THEN outstanding - 1 ELSE 0)
        ELSE IF "weztermSendEscape" \in entered THEN 0
        ELSE outstanding

\* The segment changed what the requests share: the chat id file, the
\* selection, the mute flag, the typing timer, the pending marker, or a pane
\* (by an injection).
changes(r, c) ==
    \/ c.chatFile # chatFile
    \/ c.selectedPaneId # selectedPaneId \/ c.paneFile # paneFile
    \/ c.isMuted # isMuted
    \/ c.typingInterval # typingInterval \/ c.liveTimers # liveTimers
    \/ c.pendingFile # pendingFile
    \/ Len(c.q.inj) > Len(req[r].inj)

\* the request of slot s after a segment of the request of slot r
orderAfter(r, c, s) ==
    IF s = r
    THEN [c.q EXCEPT !.changed = @ \/ changes(r, c),
                     !.raced = @ \/ (changes(r, c) /\ req[r].overlapped)]
    ELSE IF changes(r, c) /\ req[s].changed
    THEN [req[s] EXCEPT !.overlapped = TRUE]
    ELSE req[s]

\* The state a segment leaves behind.  An exception that escapes a handler
\* ends the process.
Commit(r, c) ==
    /\ selectedPaneId' = c.selectedPaneId
    /\ paneFile' = c.paneFile
    /\ chatFile' = c.chatFile
    /\ pendingFile' = c.pendingFile
    /\ isMuted' = c.isMuted
    /\ typingInterval' = c.typingInterval
    /\ liveTimers' = c.liveTimers
    /\ serverUp' = ~(c.crashed \/ c.exc # None)
    /\ req' = [s \in Slots |-> orderAfter(r, c, s)]
    /\ panes' = IF c.nfetch > 0 THEN c.L[c.nfetch] ELSE panes
    /\ outstanding' = outstandingAfter(req[r], c)
    /\ outstanding' <= MaxOutstanding
    /\ UNCHANGED <<ALLOWED_CHAT_IDS, WEZTERM_PANE_ID, now, lastRun, hook, conv>>

\* The outcomes of one segment of a handler H on request q: the first listing
\* it reads is the current one; each later listing and each shell outcome is
\* any the environment can give.  A run that read past the answers decided
\* so far is repeated with each possible next answer.
RECURSIVE Outcomes(_, _, _, _, _)
Outcomes(r, q, H(_), L, E) ==
    LET c == H([Ctx(r, L, E) EXCEPT !.q = q])
    IN  IF c.nfetch > Len(L)
        THEN UNION {Outcomes(r, q, H, Append(L, listed), E) : listed \in PaneListings}
        ELSE IF c.nexec > Len(E)
        THEN UNION {Outcomes(r, q, H, L, Append(E, ok)) : ok \in BOOLEAN}
        ELSE {c}

Segment(r, q, H(_)) ==
    \E c \in Outcomes(r, q, H, <<panes>>, <<>>) : Commit(r, c)

\* the entry points of the event loop: a request arrives, or an awaited
\* chat-API call returns (for the hook's sends, with its answer)
Free(r) == serverUp /\ req[r].pc = "idle"

PostWebhook(r, body) ==
    /\ Free(r)
    /\ Segment(r, NewReq("POST", "/", body), handleRequest)

ContinueWebhook(r) ==
    /\ serverUp /\ Suspended(req[r]) /\ req[r].path = "/"
    /\ Segment(r, req[r], resumeTelegramWebhook)

PostHook(r, body) ==
    /\ Free(r)
    /\ Segment(r, NewReq("POST", "/hook", body), handleRequest)

ContinueHook(r, answer) ==
    /\ serverUp /\ Suspended(req[r]) /\ req[r].path = "/hook"
    /\ LET resume(c) == resumeHookRequest(c, answer)
       IN  Segment(r, req[r], resume)

Get(r, path) ==
    /\ Free(r)
    /\ Segment(r, NewReq("GET", path, NoBody), handleRequest)

\* the response has been written and the connection is closed
Close(r) ==
    /\ req[r].pc = "done"
    /\ req' = [req EXCEPT ![r] = IdleReq]
    /\ UNCHANGED <<ALLOWED_CHAT_IDS, WEZTERM_PANE_ID, panes, selectedPaneId, paneFile,
                   chatFile, pendingFile, isMuted, typingInterval, liveTimers, now,
                   serverUp, outstanding, lastRun, hook, conv>>

\* the user opens or closes panes, or the multiplexer stops or starts
WeztermChange(listed) ==
    /\ panes' = listed
    /\ panes' # panes
    /\ UNCHANGED <<ALLOWED_CHAT_IDS, WEZTERM_PANE_ID, selectedPaneId, paneFile, chatFile,
                   pendingFile, isMuted, typingInterval, liveTimers, now, serverUp, req,
                   outstanding, lastRun, hook, conv>>

\* the clock advances
Tick ==
    /\ now < MaxNow * ClockStep
    /\ now' = now + ClockStep
    /\ UNCHANGED <<ALLOWED_CHAT_IDS, WEZTERM_PANE_ID, panes, selectedPaneId, paneFile,
                   chatFile, pendingFile, isMuted, typingInterval, liveTimers, serverUp,
                   req, outstanding, lastRun, hook, conv>>

\* The bridge of src/bridge.js
PostWebhookV1(r, body) ==
    /\ Free(r)
    /\ Segment(r, NewReq("POST", "/", body), handleWebhook)

ContinueWebhookV1(r) ==
    /\ serverUp /\ Suspended(req[r])
    /\ Segment(r, req[r], resumeWebhook)

GetV1(r) ==
    /\ Free(r)
    /\ Segment(r, NewReq("GET", "/", NoBody), handleWebhook)

\* what a stretch of the hook process leaves behind
HookCommit(c) ==
    /\ hook' = c.h
    /\ pendingFile' = c.pendingFile
    /\ UNCHANGED <<ALLOWED_CHAT_IDS, WEZTERM_PANE_ID, panes, selectedPaneId, paneFile,
                   chatFile, isMuted, typingInterval, liveTimers, now, serverUp, req,
                   lastRun, conv>>

\* the assistant starts the hook process on an event; its Stop event ends
\* one forwarded request
HookStart(input) ==
    /\ hook.pc \in {"none", "exited"}
    /\ HookCommit(main(HookCtx(hook), input))
    /\ outstanding' = IF input.parsable /\ input.hook_event_name = "Stop"
                         /\ outstanding > 0
                      THEN outstanding - 1 ELSE outstanding

\* the chat platform answers the hook's send
HookAnswer(answer) ==
    /\ hook.pc \in {"send", "retry"}
    /\ HookCommit(resumeMain(HookCtx(hook), answer))
    /\ UNCHANGED outstanding

\* the extractor alone, on the transcript of the hook's input
Extract ==
    /\ hook.pc = "none"
    /\ hook' = [hook EXCEPT !.pc = "extracted",
                            !.message = extractLastAssistantMessage(hook.input.transcript)]
    /\ UNCHANGED <<bridgeVars, conv>>

\* handleHookRequest's conversion of the callback's message
ConvertBridge ==
    /\ Len(conv.bridge) < MaxApplications
    /\ conv' = [conv EXCEPT !.bridge =
                    Append(@, markdownToTelegramHtml(lastOr(@, conv.text)))]
    /\ UNCHANGED <<bridgeVars, hook>>

\* the hook script's conversion of the last assistant message
ConvertHook ==
    /\ Len(conv.hook) < MaxApplications
    /\ conv' = [conv EXCEPT !.hook =
                    Append(@, markdownToTelegramHtmlV1(lastOr(@, conv.text)))]
    /\ UNCHANGED <<bridgeVars, hook>>

\* no process ran before this one
NoRun ==
    [ended |-> FALSE, selectedPaneId |-> None, isMuted |-> FALSE,
     typingInterval |-> None]

\* a start that does not read the pane-id file
loadNoPaneId(file) == None

\* "Load saved pane ID if exists"
loadSelectedPaneId(file) == IF file = None THEN None ELSE trim(file)

\* a restart that finds the memory of the process before it
RestartInPlace ==
    /\ ~lastRun.ended
    /\ lastRun' = [ended |-> TRUE, selectedPaneId |-> selectedPaneId,
                   isMuted |-> isMuted, typingInterval |-> typingInterval]
    /\ serverUp' = TRUE
    /\ req' = [r \in Slots |-> IdleReq]
    /\ UNCHANGED <<ALLOWED_CHAT_IDS, WEZTERM_PANE_ID, panes, selectedPaneId, paneFile,
                   chatFile, pendingFile, isMuted, typingInterval, liveTimers, now,
                   outstanding, hook, conv>>

\* The bridge process ends (it is stopped, or an exception ended it) and is
\* started again, once: the requests in flight and the timers go with the old
\* process, the module's variables are initialised anew and the selection is
\* loaded from its file; the files stay.
Restart ==
    /\ ~lastRun.ended
    /\ lastRun' = [ended |-> TRUE, selectedPaneId |-> selectedPaneId,
                   isMuted |-> isMuted, typingInterval |-> typingInterval]
    /\ isMuted' = FALSE
    /\ selectedPaneId' = loadSelectedPaneId(paneFile)
    /\ typingInterval' = None
    /\ liveTimers' = 0
    /\ serverUp' = TRUE
    /\ req' = [r \in Slots |-> IdleReq]
    /\ UNCHANGED <<ALLOWED_CHAT_IDS, WEZTERM_PANE_ID, panes, paneFile, chatFile,
                   pendingFile, now, outstanding, hook, conv>>

\* the process starts: the selection is loaded from its file
Start ==
    /\ panes \in PaneListings
    /\ WEZTERM_PANE_ID \in EnvPaneIds
    /\ paneFile \in {None} \cup PaneIds
    /\ selectedPaneId = loadSelectedPaneId(paneFile)
    /\ chatFile \in {None, "111"}
    /\ isMuted = FALSE
    /\ typingInterval = None
    /\ liveTimers = 0
    /\ now = 0
    /\ serverUp = TRUE
    /\ req = [r \in Slots |-> IdleReq]
    /\ outstanding = 0
    /\ lastRun = NoRun
    /\ conv = NoConversion

Init ==
    /\ Start
    /\ hook = NoHook
    /\ ALLOWED_CHAT_IDS \in AllowLists
    /\ pendingFile = <<>>

InitV1 ==
    /\ Start
    /\ hook = NoHook
    /\ ALLOWED_CHAT_IDS = {}
    /\ pendingFile \in {<<>>, <<"0">>}

Next ==
    \/ \E r \in FirstSlot, body \in WebhookBodies : PostWebhook(r, body)
    \/ \E r \in FirstSlot : ContinueWebhook(r)
    \/ \E r \in FirstSlot, body \in HookBodies : PostHook(r, body)
    \/ \E r \in FirstSlot, answer \in Answers : ContinueHook(r, answer)
    \/ \E r \in FirstSlot, path \in {"/health", "/"} : Get(r, path)
    \/ \E r \in FirstSlot : Close(r)
    \/ \E listed \in PaneListings : WeztermChange(listed)

NextV1 ==
    \/ \E r \in FirstSlot, body \in WebhookBodies : PostWebhookV1(r, body)
    \/ \E r \in FirstSlot : ContinueWebhookV1(r)
    \/ \E r \in FirstSlot : GetV1(r)
    \/ Tick
    \/ \E r \in FirstSlot : Close(r)
    \/ \E listed \in PaneListings : WeztermChange(listed)

\* Requests that overlap: a second one arrives while the handler of the
\* first is suspended in an await.
OverlapBodies ==
    {[parsable |-> TRUE, message |-> [present |-> TRUE, chat |-> m[1], text |-> m[2]],
      callback_query |-> NoCallback] :
        m \in {<<"111", "hello">>, <<"111", "/stop">>, <<"222", "hello">>}}

OverlapHookBodies ==
    {[parsable |-> TRUE, isNull |-> FALSE, message |-> "**done**", cwd |-> "/tmp",
      sessionId |-> "abc"]}

\* both chats allowed, pane 3 selected and listed
InitOverlap ==
    /\ Start
    /\ hook = NoHook
    /\ ALLOWED_CHAT_IDS = Chats
    /\ WEZTERM_PANE_ID = None
    /\ panes = {"3"}
    /\ paneFile = "3"
    /\ chatFile = None
    /\ pendingFile = <<>>

\* the second slot takes a request only while the first is taken
Arrives(r) == r = 1 \/ req[1].pc # "idle"

\* the panes stay as they are and the shell invocations succeed
SteadyPanes == panes' = panes /\ \A r \in Slots : ~req'[r].shellFailed

NextOverlap ==
    \/ \E r \in Slots, body \in OverlapBodies :
            Arrives(r) /\ PostWebhook(r, body) /\ SteadyPanes
    \/ \E r \in Slots : ContinueWebhook(r) /\ SteadyPanes
    \/ \E r \in Slots, body \in OverlapHookBodies : Arrives(r) /\ PostHook(r, body)
    \/ \E r \in Slots, answer \in {"ok", "network"} : ContinueHook(r, answer)
    \/ \E r \in Slots : Close(r)

\* overlapping requests to the bridge of src/bridge.js: free text and /stop
NextOverlapV1 ==
    \/ \E r \in Slots, body \in HookSideBodies :
            Arrives(r) /\ PostWebhookV1(r, body) /\ SteadyPanes
    \/ \E r \in Slots : ContinueWebhookV1(r) /\ SteadyPanes
    \/ \E r \in Slots : Close(r)
    \/ Tick

\* The hook process beside the bridge of src/bridge.js: pane 3 selected and
\* listed, the marker absent, left by an earlier request, or no number
InitHook ==
    /\ Start
    /\ hook = NoHook
    /\ ALLOWED_CHAT_IDS = {}
    /\ WEZTERM_PANE_ID = None
    /\ panes = {"3"}
    /\ paneFile = "3"
    /\ pendingFile \in {<<>>, <<"0">>, <<"soon">>}

NextHook ==
    \/ \E r \in FirstSlot, body \in HookSideBodies :
            PostWebhookV1(r, body) /\ SteadyPanes
    \/ \E r \in FirstSlot : ContinueWebhookV1(r) /\ SteadyPanes
    \/ \E r \in FirstSlot : Close(r)
    \/ Tick
    \/ \E input \in HookInputs : HookStart(input)
    \/ \E answer \in Answers : HookAnswer(answer)

\* the extractor alone, on every transcript of Transcripts
InitExtract ==
    /\ Start
    /\ ALLOWED_CHAT_IDS = {}
    /\ WEZTERM_PANE_ID = None
    /\ panes = {}
    /\ paneFile = None
    /\ chatFile = None
    /\ pendingFile = <<>>
    /\ hook \in {[NoHook EXCEPT !.input = StopInput(TRUE, "t.jsonl", t)] :
                    t \in Transcripts}

NextExtract == Extract

\* The bridge across a restart: what chat 111 sends.
RestartBodies ==
    {[parsable |-> TRUE, message |-> [present |-> TRUE, chat |-> m[1], text |-> m[2]],
      callback_query |-> NoCallback] :
        m \in {<<"111", "hello">>, <<"111", "/mute">>, <<"111", "/SetPane 5">>,
               <<"111", "/status">>, <<"111", "/panes">>, <<"111", "/stop">>}}

\* no environment pane and no chat id file yet
InitRestart ==
    /\ Start
    /\ hook = NoHook
    /\ ALLOWED_CHAT_IDS = Chats
    /\ WEZTERM_PANE_ID = None
    /\ chatFile = None
    /\ pendingFile = <<>>

NextRestart ==
    \/ \E r \in FirstSlot, body \in RestartBodies : PostWebhook(r, body)
    \/ \E r \in FirstSlot : ContinueWebhook(r)
    \/ \E r \in FirstSlot : Close(r)
    \/ \E listed \in PaneListings : WeztermChange(listed)
    \/ Restart

\* the converters alone, on every message of ConvTexts
InitConv ==
    /\ ALLOWED_CHAT_IDS = {"111"}
    /\ WEZTERM_PANE_ID = None
    /\ panes = {}
    /\ selectedPaneId = None
    /\ paneFile = None
    /\ chatFile = "111"
    /\ pendingFile = <<>>
    /\ isMuted = FALSE
    /\ typingInterval = None
    /\ liveTimers = 0
    /\ now = 0
    /\ serverUp = TRUE
    /\ req = [r \in Slots |-> IdleReq]
    /\ outstanding = 0
    /\ lastRun = NoRun
    /\ hook = NoHook
    /\ conv \in {[NoConversion EXCEPT !.text = t] : t \in ConvTexts}

NextConv == ConvertBridge \/ ConvertHook

Spec == Init /\ [][Next]_vars

SpecConv == InitConv /\ [][NextConv]_vars

SpecV1 == InitV1 /\ [][NextV1]_vars

SpecOverlap == InitOverlap /\ [][NextOverlap]_vars

SpecHook == InitHook /\ [][NextHook]_vars

SpecExtract == InitExtract /\ [][NextExtract]_vars

SpecRestart == InitRestart /\ [][NextRestart]_vars

SpecOverlapV1 == InitOverlap /\ [][NextOverlapV1]_vars

\* ------------------------------------------------------------ properties
WebhookPost(q) == q.method = "POST" /\ q.path = "/"
HookPost(q) == q.method = "POST" /\ q.path = "/hook"
\* a completion callback: a POST /hook whose body is a JSON object
HookCallback(q) == HookPost(q) /\ q.body.parsable /\ ~q.body.isNull
ChatMessage(q) ==
    WebhookPost(q) /\ q.body.parsable /\ q.body.message.present
    /\ q.body.message.chat # None

\* a step of the handler of the request in slot r; its first step
Stepped(r) == req'[r] # req[r] /\ req'[r].pc # "idle"
Posted(r) == req[r].pc = "idle" /\ req'[r].pc # "idle"

Answered(q, status, body) ==
    q.pc = "done" /\ q.status = status /\ q.resp = body /\ q.nresp = 1

SessionUnchanged ==
    UNCHANGED <<chatFile, selectedPaneId, paneFile, isMuted, pendingFile, typingInterval,
                liveTimers>>

Reply(chatId, tpl, args) ==
    [method |-> "sendMessage", chat_id |-> chatId, text |-> Msg(tpl, args),
     parse_mode |-> "HTML"]

SenderOf(q) ==
    IF q.body.message.present THEN q.body.message.chat ELSE q.body.callback_query.chat

FromUnlisted(q) ==
    /\ WebhookPost(q) /\ q.body.parsable
    /\ q.body.message.present \/ q.body.callback_query.present
    /\ SenderOf(q) # None
    /\ SenderOf(q) \notin ALLOWED_CHAT_IDS

NotAuthorizedNotice(q) ==
    IF q.body.message.present
    THEN Reply(q.body.message.chat, "notAuthorized", <<q.body.message.chat>>)
    ELSE [method |-> "answerCallbackQuery", chat_id |-> None,
          text |-> Msg("unauthorizedAlert", <<>>), parse_mode |-> None]

\* C1: every step of the handler of a webhook update (message or callback
\* query) whose chat id is not in the allow-list leaves the active chat id,
\* the selected pane (memory and file), the mute flag, the pending marker and
\* the typing timer as they were, injects nothing, has sent nothing but the
\* not-authorized notice (for a message, the one carrying that chat id), and
\* the handler answers 200 OK right after the notice.
C1_UnauthorizedFrame ==
    [][\A r \in Slots :
        (Stepped(r) /\ FromUnlisted(req'[r])) =>
            /\ SessionUnchanged
            /\ req'[r].inj = <<>>
            /\ req'[r].out = <<NotAuthorizedNotice(req'[r])>>
            /\ IF Posted(r) THEN req'[r].pc \in {"unauth_reply", "cb_unauth"}
               ELSE Answered(req'[r], 200, "OK")]_vars

\* an unlisted chat asked for pane 3, which is listed: it got the notice and
\* 200, and neither the selection nor the active chat moved
C1_Witness ==
    \E r \in Slots :
        /\ FromUnlisted(req[r]) /\ Answered(req[r], 200, "OK")
        /\ req[r].body.message.present /\ req[r].body.message.text = "/setpane 3"
        /\ req[r].out = <<Reply("222", "notAuthorized", <<"222">>)>>
        /\ ALLOWED_CHAT_IDS = {"111"} /\ chatFile = "111"
        /\ "3" \in panes /\ selectedPaneId = "5"

Resolutions ==
    UNION {{req[r].resolved[i] : i \in DOMAIN req[r].resolved} : r \in Slots}

Stale(e) == e.selected # None /\ e.selected \notin e.listed

\* C3 as stated: a pane resolution that finds the selected pane missing
\* from the listing returns none and leaves no selection in memory or file.
C3_Original ==
    \A e \in Resolutions :
        Stale(e) => e.ret = None /\ e.selectedAfter = None /\ e.fileAfter = None

\* C3: a pane resolution that finds the selected pane missing from the
\* listing leaves no selection in memory or in the file, and returns the
\* pane id of the WEZTERM_PANE_ID environment variable: none only when that
\* variable is not set.
C3_StaleSelection ==
    \A e \in Resolutions :
        Stale(e) =>
            /\ e.ret = WEZTERM_PANE_ID
            /\ e.selectedAfter = None /\ e.fileAfter = None

\* pane 3 was selected and is gone: the resolution returned pane 5 of the
\* environment, and the selection is cleared
C3_Witness ==
    \E e \in Resolutions :
        /\ Stale(e) /\ e.selected = "3"
        /\ WEZTERM_PANE_ID = "5" /\ e.ret = "5"
        /\ selectedPaneId = None /\ paneFile = None

SetpaneTexts == {"/setpane", "/setpane 3", "/SetPane 5"}

\* the id a /setpane text asks for
SetpaneId(text) ==
    CASE text = "/setpane 3" -> "3"
      [] text = "/SetPane 5" -> "5"
      [] OTHER -> ""

IsSetpane(q) == ChatMessage(q) /\ q.body.message.text \in SetpaneTexts

\* C4: the first step of a /setpane whose id is not in the listing it reads
\* (or whose argument is empty) leaves the selected pane, in memory and in
\* the file, as it was, and replies with the not-found (or the usage)
\* message; the later steps of any /setpane leave the selection alone too.
C4_SetpaneAbsent ==
    [][\A r \in Slots :
        LET q == req'[r]
            id == SetpaneId(q.body.message.text)
        IN  (Stepped(r) /\ IsSetpane(q) /\ (Posted(r) => id \notin panes')) =>
                /\ selectedPaneId' = selectedPaneId /\ paneFile' = paneFile
                /\ Posted(r) =>
                      /\ q.pc = "cmd_reply"
                      /\ q.out = <<IF id = ""
                                    THEN Reply(q.body.message.chat, "setpaneUsage", <<>>)
                                    ELSE Reply(q.body.message.chat, "paneNotFound",
                                               <<id>>)>>]_vars

\* pane 3 is not listed: the reply is the not-found message and pane 5
\* stays selected
C4_Witness ==
    \E r \in Slots :
        /\ IsSetpane(req[r]) /\ req[r].body.message.text = "/setpane 3"
        /\ req[r].pc = "done"
        /\ req[r].out = <<Reply(req[r].body.message.chat, "paneNotFound", <<"3">>)>>
        /\ "3" \notin panes
        /\ selectedPaneId = "5" /\ paneFile = "5"

\* the title a listed pane is named by in replies
TitleOf(id) == IF id = "3" THEN "shell" ELSE "(untitled)"

\* C5: the first step of a /setpane of an authorized chat whose id is in the
\* listing it reads makes that id the selected pane in memory and in the
\* file and replies with the confirmation naming the id and the pane's title
\* (a placeholder for a pane without one); and every pane resolution that
\* finds the selected pane in the listing returns it and keeps it selected.
C5_SetpanePresent ==
    [][/\ \A r \in Slots :
            LET q == req'[r]
                id == SetpaneId(q.body.message.text)
            IN  (/\ Posted(r) /\ IsSetpane(q)
                 /\ q.body.message.chat \in ALLOWED_CHAT_IDS
                 /\ id \in panes') =>
                    /\ selectedPaneId' = id /\ paneFile' = id
                    /\ q.pc = "cmd_reply"
                    /\ q.out = <<Reply(q.body.message.chat, "paneSelected",
                                        <<id, TitleOf(id)>>)>>
       /\ \A e \in Resolutions' :
            (e.selected # None /\ e.selected \in e.listed) =>
                e.ret = e.selected /\ e.selectedAfter = e.selected]_vars

\* chat 111 selected pane 3 where pane 5 was selected
C5_Witness ==
    \E r \in Slots :
        /\ IsSetpane(req[r]) /\ req[r].body.message.text = "/setpane 3"
        /\ req[r].body.message.chat = "111"
        /\ req[r].out = <<Reply("111", "paneSelected", <<"3", "shell">>)>>
        /\ req[r].pc = "done"
        /\ selectedPaneId = "3" /\ paneFile = "3" /\ WEZTERM_PANE_ID = "5"

FreeTexts == {"hello", "mcp"}

IsFreeText(q) == ChatMessage(q) /\ q.body.message.text \in FreeTexts

\* the selected pane was in every listing the request's resolutions read
FoundSelected(q) ==
    \A i \in DOMAIN q.resolved :
        q.resolved[i].selected # None /\ q.resolved[i].selected \in q.resolved[i].listed

\* C6: the handler of free text, run while a pane is selected that stays in
\* the listing and while the shell invocations succeed, is one step that
\* ends with the pending marker set to the current time, the typing loop
\* running for that chat, the text and then a carriage return injected into
\* the selected pane, and the webhook answered 200 OK.
C6_FreeTextDispatch ==
    [][\A r \in Slots :
        LET q == req'[r]
            chatId == q.body.message.chat
        IN  (/\ Posted(r) /\ IsFreeText(q)
             /\ selectedPaneId # None /\ FoundSelected(q) /\ ~q.shellFailed) =>
                /\ pendingFile' = <<ToStr(now)>>
                /\ typingInterval' = chatId /\ liveTimers' = 1
                /\ q.out = <<[method |-> "sendChatAction", chat_id |-> chatId,
                               text |-> Msg("typing", <<>>), parse_mode |-> None]>>
                /\ q.inj = <<[pane |-> selectedPaneId, keys |-> q.body.message.text],
                              [pane |-> selectedPaneId, keys |-> "\r"]>>
                /\ selectedPaneId' = selectedPaneId
                /\ Answered(q, 200, "OK")]_vars

\* "hello" went into pane 3 after the clock had advanced
C6_Witness ==
    \E r \in Slots :
        /\ IsFreeText(req[r]) /\ req[r].body.message.text = "hello"
        /\ Answered(req[r], 200, "OK")
        /\ req[r].inj = <<[pane |-> "3", keys |-> "hello"], [pane |-> "3", keys |-> "\r"]>>
        /\ now = ClockStep /\ pendingFile = <<"600000">>
        /\ typingInterval = req[r].body.message.chat /\ liveTimers = 1

\* C7: while the mute flag is true a POST /hook makes no chat-API call, and
\* a completion callback is answered 200 {ok:true, muted:true} at once,
\* whatever its message, the active chat and the selection.
C7_MutedHook ==
    [][\A r \in Slots :
        (Posted(r) /\ HookPost(req'[r]) /\ isMuted) =>
            /\ req'[r].out = <<>>
            /\ req'[r].pc = "done"
            /\ HookCallback(req'[r]) => Answered(req'[r], 200, "{ok:true,muted:true}")]_vars

\* a callback with a message and an active chat, swallowed
C7_Witness ==
    \E r \in Slots :
        /\ HookCallback(req[r]) /\ req[r].body.message = "**done**"
        /\ isMuted /\ chatFile = "111"
        /\ Answered(req[r], 200, "{ok:true,muted:true}")
        /\ req[r].out = <<>>

\* what the hook's header and converted message have to be
ExpectedHeader(cwd, sessionId) ==
    IF cwd = "/tmp" /\ sessionId = "abc"
    THEN "<code>(dir) /tmp</code>\n<code>(session) abc</code>\n\n"
    ELSE "<code>(dir) unknown-dir</code>\n<code>(session) unknown-session</code>\n\n"

ExpectedHtml(message) ==
    IF message = "**done**" THEN "<b>done</b>" ELSE "a&lt;b <code>x&amp;y</code>"

HookSend(q, parseMode) ==
    [method |-> "sendMessage", chat_id |-> chatFile,
     text |-> Msg("text", <<ExpectedHeader(q.body.cwd, q.body.sessionId)
                            \o ExpectedHtml(q.body.message)>>),
     parse_mode |-> parseMode]

\* C8: with mute off, an active chat id stored and a non-empty message, the
\* first step of a completion callback sends to the active chat the header
\* with the callback's cwd and sessionId followed by the converted message,
\* in HTML mode; an answer that is not ok to that send is followed by one
\* send of the same text without parse mode; and an ok answer to either send
\* ends the callback with 200 {ok:true}.  Nothing of this depends on any
\* request having been forwarded from chat.
C8_HookDelivery ==
    [][\A r \in Slots :
        LET q == req'[r]
        IN  /\ (/\ Posted(r) /\ HookCallback(q) /\ ~isMuted /\ chatFile # None
                 /\ q.body.message # "") =>
                    q.out = <<HookSend(q, "HTML")>> /\ q.pc = "hook_send"
            /\ (Stepped(r) /\ req[r].pc \in {"hook_send", "hook_retry"}) =>
                    IF q.answers[Len(q.answers)] = "ok"
                    THEN Answered(q, 200, "{ok:true}") /\ q.out = req[r].out
                    ELSE req[r].pc = "hook_send" =>
                            /\ q.out = <<HookSend(q, "HTML"), HookSend(q, None)>>
                            /\ q.pc = "hook_retry"]_vars

\* the callback of the example, delivered at once: nothing was ever forwarded
\* (no typing loop was ever started by this process)
C8_Witness ==
    \E r \in Slots :
        /\ HookCallback(req[r]) /\ req[r].body.message = "**done**"
        /\ req[r].body.cwd = "/tmp" /\ req[r].body.sessionId = "abc"
        /\ chatFile = "111"
        /\ req[r].out[1].text.args[1]
             = "<code>(dir) /tmp</code>\n<code>(session) abc</code>\n\n<b>done</b>"
        /\ req[r].out[1].chat_id = "111"
        /\ req[r].answers = <<"ok">>
        /\ Answered(req[r], 200, "{ok:true}")

\* C9: a completion callback that arrives while no active chat id is stored
\* is answered 400 {ok:false, error} at once and makes no chat-API call.
C9_NoActiveChat ==
    [][\A r \in Slots :
        (Posted(r) /\ HookCallback(req'[r]) /\ chatFile = None) =>
            /\ Answered(req'[r], 400, "{ok:false,error:No chat ID}")
            /\ req'[r].out = <<>>
            /\ chatFile' = None]_vars

C9_Witness ==
    \E r \in Slots :
        /\ HookCallback(req[r]) /\ req[r].body.message = "**done**"
        /\ chatFile = None
        /\ Answered(req[r], 400, "{ok:false,error:No chat ID}")
        /\ req[r].out = <<>>

\* a body that is no JSON, or a message without its chat object
Malformed(q) ==
    WebhookPost(q)
    /\ (~q.body.parsable \/ (q.body.message.present /\ q.body.message.chat = None))

\* C10: a webhook POST gets one response and never a second: its handler
\* is either waiting for a chat-API call or has answered, with 200 OK or
\* with 500; 500 is the answer to a malformed body, and otherwise only to a
\* callback query without data or after the dispatcher was entered; the
\* handling of a malformed body changes no session state, calls and injects
\* nothing; and the server stays up after every step.
C10_WebhookResponse ==
    [][\A r \in Slots :
        LET q == req'[r]
        IN  (Stepped(r) /\ WebhookPost(q)) =>
                /\ serverUp'
                /\ q.pc = "done" \/ Suspended(q)
                /\ q.nresp = (IF q.pc = "done" THEN 1 ELSE 0)
                /\ q.pc = "done" =>
                      \/ q.status = 200 /\ q.resp = "OK" /\ ~Malformed(q)
                      \/ /\ q.status = 500 /\ q.resp = "Internal Server Error"
                         /\ \/ Malformed(q)
                            \/ "weztermSendText" \in q.calls
                            \/ q.body.callback_query.data = None
                /\ Malformed(q) =>
                      /\ Answered(q, 500, "Internal Server Error")
                      /\ SessionUnchanged
                      /\ q.out = <<>> /\ q.inj = <<>>]_vars

\* a body that is no JSON was answered 500 while a pane is selected and a
\* typing loop runs, and the server is up
C10_Witness ==
    \E r \in Slots :
        /\ WebhookPost(req[r]) /\ ~req[r].body.parsable
        /\ Answered(req[r], 500, "Internal Server Error")
        /\ serverUp /\ selectedPaneId = "3" /\ typingInterval = "111"

MuteTexts == {"/mute", "/unmute"}

\* a /mute or /unmute command of a chat in the allow-list
IsMuteCommand(q) ==
    /\ ChatMessage(q) /\ q.body.message.chat \in ALLOWED_CHAT_IDS
    /\ q.body.message.text \in MuteTexts

HealthGet(q) == q.method = "GET" /\ q.path = "/health"

\* C11: the mute flag is false when the process starts; the first step of an
\* authorized /mute sets it and that of an authorized /unmute resets it; no
\* other step of any request changes it (so it is true exactly when the last
\* authorized mute/unmute command handled was /mute); and a GET /health is
\* answered at once with 200 {ok:true, muted} carrying the flag's value,
\* without a chat-API call.
C11_MuteFlag ==
    /\ isMuted = FALSE
    /\ [][/\ \A r \in Slots :
                (Posted(r) /\ IsMuteCommand(req'[r])) =>
                    isMuted' = (req'[r].body.message.text = "/mute")
          /\ (~\E r \in Slots : Posted(r) /\ IsMuteCommand(req'[r])) =>
                isMuted' = isMuted
          /\ \A r \in Slots :
                (Posted(r) /\ HealthGet(req'[r])) =>
                    /\ Answered(req'[r], 200, IF isMuted THEN "{ok:true,muted:true}"
                                              ELSE "{ok:true,muted:false}")
                    /\ req'[r].out = <<>>]_vars

\* the health check of a muted bridge
C11_Witness ==
    \E r \in Slots :
        /\ HealthGet(req[r]) /\ isMuted
        /\ Answered(req[r], 200, "{ok:true,muted:true}")

IsStop(q) == ChatMessage(q) /\ q.body.message.text = "/stop"

\* the escape key, and nothing else, was injected into one pane
EscapeSent(q) == \E p \in PaneIds : q.inj = <<[pane |-> p, keys |-> EscapeKey]>>

\* C12: the handler of a /stop sends the chat one reply in its first step:
\* the confirmation when the escape key went into the pane, the failure
\* notice when no pane was resolved or the shell invocation failed (then
\* nothing was injected); its second step, after that reply, ends with the
\* typing loop stopped, no timer left, the pending marker absent and the
\* webhook answered 200 OK.
C12_StopHandled ==
    [][\A r \in Slots :
        LET q == req'[r]
        IN  (Stepped(r) /\ IsStop(q)) =>
                /\ q.out = <<Reply(q.body.message.chat,
                                   IF EscapeSent(q) THEN "stopSent" ELSE "stopFailed",
                                   <<>>)>>
                /\ EscapeSent(q) \/ q.inj = <<>>
                /\ IF Posted(r) THEN q.pc = "stop_reply"
                   ELSE /\ Answered(q, 200, "OK")
                        /\ typingInterval' = None /\ liveTimers' = 0
                        /\ pendingFile' = <<>>]_vars

\* a /stop whose shell invocation failed: the failure notice went out, and
\* neither loop nor marker is left
C12_Witness ==
    \E r \in Slots :
        /\ IsStop(req[r]) /\ Answered(req[r], 200, "OK")
        /\ req[r].shellFailed /\ req[r].inj = <<>>
        /\ req[r].out = <<Reply(req[r].body.message.chat, "stopFailed", <<>>)>>
        /\ typingInterval = None /\ liveTimers = 0 /\ pendingFile = <<>>

\* the dispatcher was entered for the request and threw: its own pane
\* resolution returned none, or a shell invocation failed
DispatchFailed(q) ==
    /\ "weztermSendText" \in q.calls
    /\ q.shellFailed \/ q.resolved[Len(q.resolved)].ret = None

TypingAction(chatId) ==
    [method |-> "sendChatAction", chat_id |-> chatId, text |-> Msg("typing", <<>>),
     parse_mode |-> None]

\* C13: when the dispatch of a free-text message fails, the first step of
\* its handler ends with the typing loop stopped, no timer left and the
\* pending marker absent, and has sent the chat the error message carrying
\* the error's text (no pane selected, or the shell's error); the carriage
\* return was not injected; and the next step answers the webhook 200 OK
\* and changes nothing of the session.
C13_DispatchFailure ==
    [][\A r \in Slots :
        LET q == req'[r]
            chatId == q.body.message.chat
        IN  (Stepped(r) /\ IsFreeText(q) /\ DispatchFailed(q)) =>
                /\ q.out = <<TypingAction(chatId),
                             Reply(chatId, "error",
                                   <<IF q.shellFailed THEN "ExecFailed"
                                     ELSE "NoPaneSelected">>)>>
                /\ \A i \in DOMAIN q.inj : q.inj[i].keys # CarriageReturn
                /\ IF Posted(r)
                   THEN /\ q.pc = "cmd_reply"
                        /\ typingInterval' = None /\ liveTimers' = 0
                        /\ pendingFile' = <<>>
                   ELSE Answered(q, 200, "OK") /\ SessionUnchanged]_vars

\* "hello" went into pane 3, the carriage return failed: the chat got the
\* error, the webhook got 200, and neither loop nor marker is left
C13_Witness ==
    \E r \in Slots :
        /\ IsFreeText(req[r]) /\ DispatchFailed(req[r])
        /\ req[r].inj = <<[pane |-> "3", keys |-> "hello"]>>
        /\ req[r].out[2] = Reply(req[r].body.message.chat, "error", <<"ExecFailed">>)
        /\ Answered(req[r], 200, "OK")
        /\ typingInterval = None /\ liveTimers = 0 /\ pendingFile = <<>>

\* the dispatch failed because the selected pane closed between the
\* handler's pane resolution and the dispatcher's
C13_WitnessNoPane ==
    \E r \in Slots :
        /\ IsFreeText(req[r]) /\ DispatchFailed(req[r]) /\ ~req[r].shellFailed
        /\ req[r].out[2] = Reply(req[r].body.message.chat, "error", <<"NoPaneSelected">>)
        /\ Answered(req[r], 200, "OK")

\* the dispatcher was entered for the request and did not get to inject the
\* carriage return: the pane resolution or a shell invocation failed
SendTextFailed(q) ==
    /\ "weztermSendText" \in q.calls
    /\ \A i \in DOMAIN q.inj : q.inj[i].keys # CarriageReturn

\* the escape key was asked for and did not go in
SendEscapeFailed(q) == "weztermSendEscape" \in q.calls /\ q.inj = <<>>

\* the chat was told something
Told(q) == \E i \in DOMAIN q.out : q.out[i].method = "sendMessage"

\* C14 as stated: a webhook request whose pane resolution or dispatch failed
\* (in a command, a free-text message or a resume callback) is not answered
\* 500, and the chat has been sent a reply.
C14_Original ==
    \A r \in Slots :
        LET q == req[r]
        IN  (/\ WebhookPost(q) /\ q.pc = "done"
             /\ SendTextFailed(q) \/ SendEscapeFailed(q)) =>
                q.status # 500 /\ Told(q)

SlashText(q) == ChatMessage(q) /\ startsWith(q.body.message.text, "/")

\* the command word of a slash text, as the router compares it
CommandOf(q) == toLowerCase(splitCommand(q.body.message.text))

RecognizedCommands ==
    {"/start", "/help", "/panes", "/setpane", "/status", "/mute", "/unmute", "/refresh",
     "/stop", "/clear", "/resume"}

\* the prefixes of the commands that need interactive input
DenylistPrefixes ==
    {"/mcp", "/help", "/config", "/settings", "/model", "/vim", "/terminal-setup"}

\* C15: whatever a request whose text begins with a slash injects is the
\* literal /clear or /resume (when that is its command word) followed by a
\* carriage return, or the escape key of /stop: never the text itself.  The
\* first step of an unrecognized command of an authorized chat replies with
\* the unsupported notice when the command word starts with a denylist
\* prefix and with the unknown-command notice otherwise, injects nothing and
\* changes nothing of the session but the active chat id; its second step
\* answers 200 OK and changes nothing.
C15_SlashCommands ==
    [][\A r \in Slots :
        LET q == req'[r]
            chatId == q.body.message.chat
            command == CommandOf(q)
        IN  (Stepped(r) /\ SlashText(q)) =>
              /\ \A i \in DOMAIN q.inj :
                    \/ q.inj[i].keys = command /\ command \in {"/clear", "/resume"}
                    \/ q.inj[i].keys = CarriageReturn /\ i = 2
                    \/ q.inj[i].keys = EscapeKey /\ command = "/stop"
              /\ (chatId \in ALLOWED_CHAT_IDS /\ command \notin RecognizedCommands) =>
                    /\ q.inj = <<>>
                    /\ q.out = <<Reply(chatId,
                                       IF \E p \in DenylistPrefixes : startsWith(command, p)
                                       THEN "blockedCommand" ELSE "unknownCommand",
                                       <<command>>)>>
                    /\ UNCHANGED <<selectedPaneId, paneFile, isMuted, pendingFile,
                                   typingInterval, liveTimers>>
                    /\ chatFile' = chatId
                    /\ IF Posted(r) THEN q.pc = "cmd_reply"
                       ELSE Answered(q, 200, "OK")]_vars

\* "/Config x" from chat 111, with pane 3 selected and listed: the chat got
\* the unsupported notice for /config, and the pane got nothing
C15_Witness ==
    \E r \in Slots :
        /\ SlashText(req[r]) /\ req[r].body.message.text = "/Config x"
        /\ req[r].out = <<Reply("111", "blockedCommand", <<"/config">>)>>
        /\ req[r].inj = <<>> /\ Answered(req[r], 200, "OK")
        /\ selectedPaneId = "3" /\ "3" \in panes /\ chatFile = "111"

\* a denylisted command written without its slash
DenylistedWords == {"mcp"}

\* C16 as stated: free text that is a denylisted command without its leading
\* slash, sent by an authorized chat, is answered with the unsupported
\* notice and nothing is injected into the terminal.
C16_Original ==
    \A r \in Slots :
        LET q == req[r]
        IN  (/\ ChatMessage(q) /\ q.body.message.text \in DenylistedWords
             /\ "handleMessage" \in q.calls /\ q.resolved[1].ret # None) =>
                /\ q.inj = <<>>
                /\ q.out = <<Reply(q.body.message.chat, "blockedText", <<>>)>>

\* ------------------------------------------------------------ converter properties
\* how often p occurs in s, counted from left to right without overlap
RECURSIVE countOf(_, _)
countOf(s, p) ==
    LET j == indexOfFrom(s, p, 1)
    IN  IF j = 0 THEN 0 ELSE 1 + countOf(SubSeq(s, j + Len(p), Len(s)), p)

\* the tags the converters emit
EmittedTags ==
    {"<pre>", "</pre>", "<code>", "</code>", "<b>", "</b>", "<i>", "</i>", "<u>", "</u>",
     "<s>", "</s>"}

\* s without the emitted tags
RECURSIVE stripTags(_)
stripTags(s) ==
    LET j == indexOfFrom(s, "<", 1)
        tags == {t \in EmittedTags : matchAt(s, j, t)}
        t == CHOOSE t \in tags : TRUE
    IN  IF j = 0 THEN s
        ELSE IF tags # {}
        THEN SubSeq(s, 1, j - 1) \o stripTags(SubSeq(s, j + Len(t), Len(s)))
        ELSE SubSeq(s, 1, j) \o stripTags(SubSeq(s, j + 1, Len(s)))

\* what is left of a text outside its fenced code blocks and inline code
\* spans (each of them replaced by a word without markup characters)
OutsideCode(text) ==
    extractInlineCodesV1(extractCodeBlocksV1(text, 1, "", <<>>).result, 1, "", <<>>).result

\* the applications of a converter so far: each with its input and output
Applications(outputs) ==
    {[text |-> lastOr(SubSeq(outputs, 1, i - 1), conv.text), html |-> outputs[i]] :
        i \in DOMAIN outputs}

Entity(ch) == CASE ch = "<" -> "&lt;" [] ch = ">" -> "&gt;" [] ch = "&" -> "&amp;"

\* C17: in the output of either converter, for every input: no raw angle
\* bracket is left once the emitted tags (pre, code, b, i, u, s) are taken
\* away; every ampersand begins one of the entities &amp; &lt; &gt;; for each
\* of '<', '>', '&' the output holds at least as many of its entity as the
\* input holds of the character outside code blocks and code spans, and
\* exactly as many when the input has no back-tick at all.
C17_EntitiesOutsideCode ==
    \A a \in Applications(conv.bridge) \cup Applications(conv.hook) :
        /\ countOf(stripTags(a.html), "<") = 0
        /\ countOf(stripTags(a.html), ">") = 0
        /\ countOf(a.html, "&")
             = countOf(a.html, "&amp;") + countOf(a.html, "&lt;") + countOf(a.html, "&gt;")
        /\ \A ch \in {"<", ">", "&"} :
              /\ countOf(a.html, Entity(ch)) >= countOf(OutsideCode(a.text), ch)
              /\ countOf(a.text, BT) = 0 =>
                    countOf(a.html, Entity(ch)) = countOf(a.text, ch)

\* a '<' before an inline code span that holds another one
C17_Witness ==
    /\ conv.text = "<^x<y^"
    /\ conv.bridge = <<"&lt;<code>x&lt;y</code>">>

\* the <pre><code> blocks that the fenced code blocks of a text have to
\* become: the trimmed content with & < > escaped, and nothing else done
ExpectedBlocks(text) ==
    LET blocks == extractCodeBlocksV1(text, 1, "", <<>>).codes
    IN  {blocks[i] : i \in DOMAIN blocks}

\* C18 as stated, for the converter of hooks/send-to-telegram.js: the output
\* for an input with fenced code blocks contains each of them as its
\* <pre><code> block, and no placeholder text.
C18_Original ==
    \A a \in Applications(conv.hook) :
        /\ \A block \in ExpectedBlocks(a.text) : countOf(a.html, block) >= 1
        /\ ExpectedBlocks(a.text) # {} => countOf(a.html, "CODE_BLOCK_") = 0

Entities == {"&lt;", "&gt;", "&amp;"}

\* an entity, escaped once more
EscapedAgain(e) == "&amp;" \o SubSeq(e, 2, Len(e))

\* C19 as stated: for an input that contains the literal text &lt;, the
\* output of the converter contains &lt; and not &amp;lt;.
C19_Original ==
    \A a \in Applications(conv.bridge) \cup Applications(conv.hook) :
        countOf(a.text, "&lt;") > 0 =>
            countOf(a.html, "&lt;") > 0 /\ countOf(a.html, "&amp;lt;") = 0

\* C19: the converter escapes the '&' of every entity of its input: for an
\* input without back-ticks, each of &lt; &gt; &amp; comes out as &amp;lt;
\* &amp;gt; &amp;amp;, as often as it occurs in the input; this holds as
\* well when the input is the converter's own output.
C19_EscapesEntities ==
    \A a \in Applications(conv.bridge) \cup Applications(conv.hook) :
        countOf(a.text, BT) = 0 =>
            \A e \in Entities : countOf(a.html, EscapedAgain(e)) = countOf(a.text, e)

\* the literal text &lt;, converted, and the output converted again
C19_Witness ==
    /\ conv.text = "&lt;"
    /\ conv.bridge = <<"&amp;lt;", "&amp;amp;lt;">>

\* C20: of a request that entered sendText, at most two injections reach
\* the pane: the text (with its quotes escaped) and then, to the same pane,
\* the carriage return; the carriage return never goes in without the text
\* before it; and when a shell invocation failed, the carriage return did
\* not go in and the operation failed with the shell's error: the chat got
\* the error reply naming it (free text), or the webhook was answered 500
\* (/clear, /resume, the resume callback).
C20_TextThenReturn ==
    \A r \in Slots :
        LET q == req[r]
            sent == IF q.body.message.present
                    THEN IF IsFreeText(q) THEN q.body.message.text ELSE CommandOf(q)
                    ELSE "/resume abc"
        IN  "weztermSendText" \in q.calls =>
                /\ Len(q.inj) <= 2
                /\ Len(q.inj) >= 1 => q.inj[1].keys = escapeQuotes(sent)
                /\ Len(q.inj) = 2 =>
                      q.inj[2] = [pane |-> q.inj[1].pane, keys |-> CarriageReturn]
                /\ q.shellFailed <=> (Len(q.inj) < 2 /\ q.resolved[Len(q.resolved)].ret # None)
                /\ q.shellFailed =>
                      IF IsFreeText(q)
                      THEN q.out = <<TypingAction(q.body.message.chat),
                                     Reply(q.body.message.chat, "error", <<"ExecFailed">>)>>
                      ELSE Answered(q, 500, "Internal Server Error")

\* /clear went into pane 3, its carriage return failed: nothing more was
\* injected and the webhook got 500
C20_Witness ==
    \E r \in Slots :
        /\ "weztermSendText" \in req[r].calls /\ req[r].shellFailed
        /\ req[r].body.message.text = "/clear"
        /\ req[r].inj = <<[pane |-> "3", keys |-> "/clear"]>>
        /\ Answered(req[r], 500, "Internal Server Error")

\* the weztermSendText calls made so far by the requests in flight
SendTextCalls == UNION {{req[r].sends[i] : i \in 1..Len(req[r].sends)} : r \in Slots}

\* C21: a weztermSendText call injects only into a pane that is in the
\* listing it fetched at its start; when the pane it resolved is not in that
\* listing (also when the listing findClaudePaneId read differs from it, and
\* when there is nothing to resolve) the call throws, injects nothing and
\* leaves the selection cleared in memory and on disk.
C21_FreshListing ==
    \A s \in SendTextCalls :
        /\ \A i \in 1..Len(s.injected) : s.injected[i].pane \in s.listed
        /\ s.pane \notin s.listed =>
              /\ s.error # None
              /\ s.injected = <<>>
              /\ s.selectedAfter = None
              /\ s.fileAfter = None

\* a call whose two listings differ: the pane it resolved was in the second
\* one and not in the first
C21_Witness ==
    \E s \in SendTextCalls :
        /\ s.pane # None /\ s.pane \in s.relisted /\ s.pane \notin s.listed
        /\ s.error = "PaneGone" /\ s.injected = <<>>

\* a call that went through: its pane is in both listings
C21_WitnessSent ==
    \E s \in SendTextCalls :
        s.pane \in s.listed /\ s.relisted # s.listed /\ Len(s.injected) = 2

\* the sendMessage calls a request has made, in order
SendMessages(q) == SelectSeq(q.out, LAMBDA o : o.method = "sendMessage")

\* the 500 bodies that carry an error field
ErrorBodies == {"{ok:false,error:description}", "{ok:false,error:message}"}

\* the attempts of one completion callback: at most two sendMessage calls,
\* the first with parse mode HTML, the second made exactly when the first
\* was not ok, with the same chat and text and no parse mode; after a second
\* failure the callback has answered 500 with a body of the set bodies
TwoAttempts(q, bodies) ==
    LET sends == SendMessages(q)
    IN  /\ Len(sends) <= 2
        /\ Len(sends) >= 1 => sends[1].parse_mode = "HTML"
        /\ Len(sends) = 2 <=> (Len(q.answers) >= 1 /\ q.answers[1] # "ok")
        /\ Len(sends) = 2 =>
              /\ sends[2].parse_mode = None
              /\ sends[2].chat_id = sends[1].chat_id
              /\ sends[2].text = sends[1].text
        /\ (Len(q.answers) = 2 /\ q.answers[2] # "ok") =>
              /\ q.pc = "done" /\ q.status = 500 /\ q.nresp = 1
              /\ q.resp \in bodies

\* C22: a completion callback makes at most two sendMessage attempts, the
\* second without parse mode and only after a first that was not ok, and
\* after a second failure it answers 500 with a body {ok:false, error}.
C22_Original ==
    \A r \in Slots : HookCallback(req[r]) => TwoAttempts(req[r], ErrorBodies)

\* what holds of the attempts: the same, with the 500 body being {ok:false}
\* alone when the second send failed without a description
C22_TwoAttempts ==
    \A r \in Slots :
        HookCallback(req[r]) => TwoAttempts(req[r], ErrorBodies \cup {"{ok:false}"})

\* both sends were made and failed
C22_BothFailed ==
    \E r \in Slots :
        /\ HookCallback(req[r]) /\ Len(SendMessages(req[r])) = 2
        /\ Len(req[r].answers) = 2 /\ req[r].answers[2] = "rejected"
        /\ req[r].status = 500

\* C23: the second, plain-text send of a completion callback is made only
\* after the chat platform rejected the first one as unparsable markup; a
\* network error or another rejection of the first send is followed by no
\* second send.
C23_Original ==
    \A r \in Slots :
        (HookCallback(req[r]) /\ Len(SendMessages(req[r])) = 2)
            => req[r].answers[1] = "unparsable"

\* what holds instead: the second send follows every first send that was not
\* ok, whatever the failure
C23_FallbackOnAnyFailure ==
    \A r \in Slots :
        (HookCallback(req[r]) /\ Len(req[r].answers) >= 1 /\ req[r].answers[1] # "ok")
            => /\ Len(SendMessages(req[r])) = 2
               /\ SendMessages(req[r])[2].parse_mode = None

\* the fallback after a network error
C23_FallbackAfterNetworkError ==
    \E r \in Slots :
        /\ HookCallback(req[r]) /\ Len(SendMessages(req[r])) = 2
        /\ req[r].answers[1] = "network"

\* the outcomes of a completion callback, by its response
HookOutcomes ==
    {<<200, "{ok:true,muted:true}">>, <<400, "{ok:false,error:No chat ID}">>,
     <<200, "{ok:true,empty:true}">>, <<200, "{ok:true}">>,
     <<500, "{ok:false,error:description}">>, <<500, "{ok:false}">>}

\* every step of the handler of a POST /hook whose body satisfies Body leaves
\* no typing timer behind, and a response it writes is one of HookOutcomes
TypingStoppedFor(Body(_)) ==
    \A r \in Slots :
        (Stepped(r) /\ HookPost(req'[r]) /\ Body(req'[r].body)) =>
            /\ typingInterval' = None
            /\ liveTimers' = 0
            /\ req'[r].pc = "done" => <<req'[r].status, req'[r].resp>> \in HookOutcomes

\* C24: every step of a POST /hook with a parsable JSON body leaves the typing
\* loop stopped, so that it is stopped when the handler responds, in each of
\* its outcomes.
C24_Original ==
    [][LET Parsable(body) == body.parsable IN TypingStoppedFor(Parsable)]_vars

\* C24 for a body that is a JSON object: the handler stops the typing loop in
\* its first step, before any response, whether the outcome is muted, no
\* active chat, empty message, delivered or delivery failed.
C24_TypingStopped ==
    [][LET Object(body) == body.parsable /\ ~body.isNull IN TypingStoppedFor(Object)]_vars

\* a completion callback that found the typing timer running and failed to
\* deliver has answered with the timer stopped
C24_Witness ==
    \E r \in Slots :
        /\ HookCallback(req[r]) /\ req[r].typingAtArrival # None
        /\ req[r].pc = "done" /\ req[r].status = 500
        /\ typingInterval = None /\ liveTimers = 0

\* C25: whenever a forwarded free-text request is outstanding (dispatched, and
\* since then not completed by a callback, not interrupted by /stop), the
\* typing loop is running, also with two requests outstanding.
C25_Original == outstanding > 0 => typingInterval # None

\* what the single timer gives: it runs after every step that forwarded a text
C25_RunningAfterForward ==
    [][outstanding' > outstanding => (typingInterval' # None /\ liveTimers' = 1)]_vars

\* two texts were forwarded and one completion callback has arrived
C25_OneOfTwoCompleted ==
    \E r \in Slots :
        /\ HookCallback(req[r]) /\ req[r].typingAtArrival # None
        /\ outstanding = 1 /\ typingInterval = None

\* C26: between the first and the last state-changing step of one request no
\* other request makes a state-changing step: no request changes the shared
\* state again after another request changed it.
C26_Original == \A r \in Slots : ~req[r].raced

\* a /stop whose stopTypingLoop, after its awaited reply, stopped the timer a
\* later message had started
C26_StopRace ==
    \E r \in Slots :
        /\ req[r].raced /\ IsStop(req[r])
        /\ typingInterval = None /\ outstanding > 0

\* C27: at most one typing timer is scheduled, the one typingInterval holds;
\* none when the loop is stopped.
C27_OneTimer == liveTimers = (IF typingInterval = None THEN 0 ELSE 1)

\* a message that found the timer of another chat running has replaced it
C27_Witness ==
    \E r \in Slots :
        /\ "handleMessage" \in req[r].calls
        /\ req[r].typingAtArrival \notin {None, typingInterval}
        /\ typingInterval # None /\ liveTimers = 1
        /\ \E s \in Slots \ {r} : Suspended(req[s])

\* the hook process handled a Stop event with a fresh marker, a chat id, the
\* bot token and a transcript path: it came to the extraction
HandledStop(h) ==
    /\ h.passed /\ h.input.hook_event_name = "Stop"
    /\ h.input.token /\ h.input.transcript_path # None

\* C28: when the hook process that handled a Stop event with a fresh marker,
\* a chat id, the bot token and a transcript path ends, the marker is absent,
\* with or without an assistant message and whatever the answers to its sends.
C28_MarkerCleared ==
    [][(hook'.pc = "exited" /\ hook.pc # "exited" /\ HandledStop(hook')) =>
            /\ pendingFile' = <<>>
            /\ hook'.code = 0]_vars

\* a hook process has ended after both of its sends failed, and the marker
\* set by the message it answered is gone
C28_Witness ==
    /\ hook.pc = "exited" /\ HandledStop(hook)
    /\ hook.marker = <<"600000">>
    /\ Len(hook.out) = 2 /\ hook.answers = <<"rejected", "network">>
    /\ pendingFile = <<>>

\* the hook process has ended without a message to send
C28_WitnessNoMessage ==
    /\ hook.pc = "exited" /\ HandledStop(hook)
    /\ hook.message = None /\ hook.marker # <<>> /\ hook.out = <<>>
    /\ pendingFile = <<>>

\* the times the clock shows
ClockTimes == {k * ClockStep : k \in 0..MaxNow}

\* the marker the hook process saw was fresh: a number less than the timeout
\* before the clock of that moment
FreshMarker(h) ==
    /\ h.marker # <<>>
    /\ \E t \in ClockTimes : h.marker[1] = ToStr(t) /\ h.at - t < 10 * 60 * 1000

\* C29: a hook process that found the marker absent, 10 minutes old or older,
\* or without a number in it sends nothing to the chat: every hook process
\* that has sent, or has come to the extraction, saw a fresh marker; and one
\* that did not ends with exit code 0 and leaves the marker as it was.
C29_ExpiredMarker ==
    /\ (hook.out # <<>> \/ hook.passed) => FreshMarker(hook)
    /\ (hook.pc = "exited" /\ hook.input.parsable
        /\ hook.input.hook_event_name = "Stop" /\ ~FreshMarker(hook)) =>
            /\ hook.out = <<>> /\ hook.code = 0 /\ hook.message = None

\* a Stop event met the marker of a forwarded message 10 minutes after it
\* was set, and nothing was sent
C29_Witness ==
    /\ hook.pc = "exited" /\ hook.input.hook_event_name = "Stop"
    /\ hook.input.token /\ hook.input.transcript.exists
    /\ hook.marker = <<"0">> /\ hook.at = 10 * 60 * 1000
    /\ chatFile = "111"
    /\ hook.out = <<>> /\ hook.code = 0
    /\ pendingFile = <<"0">>

\* the same for a marker that holds no number
C29_WitnessNoNumber ==
    /\ hook.pc = "exited" /\ hook.input.hook_event_name = "Stop"
    /\ hook.marker = <<"soon">> /\ hook.out = <<>> /\ pendingFile = <<"soon">>

\* the texts of an entry: its string content, or the texts of its non-empty
\* text blocks
BlockTexts(line) ==
    IF line.kind = "string" THEN <<line.text>>
    ELSE IF line.kind = "array"
    THEN LET texts == SelectSeq(line.blocks,
                                LAMBDA b : b.type = "text" /\ b.text # "")
         IN  [i \in 1..Len(texts) |-> texts[i].text]
    ELSE <<>>

\* s is the texts of parts, one after the other with a newline between
RECURSIVE JoinedBy(_, _)
JoinedBy(parts, s) ==
    IF Len(parts) = 1 THEN s = parts[1]
    ELSE \E i \in 1..Len(s) :
            /\ SubSeq(s, i, i) = "\n"
            /\ SubSeq(s, 1, i - 1) = parts[1]
            /\ JoinedBy(Tail(parts), SubSeq(s, i + 1, Len(s)))

\* the lines of a transcript that are assistant records, and those of them
\* that carry a message with text
AssistantLines(t) ==
    {i \in 1..Len(t.lines) : t.lines[i].json /\ t.lines[i].type = "assistant"}
TextLines(t) ==
    {i \in AssistantLines(t) : t.lines[i].has /\ BlockTexts(t.lines[i]) # <<>>}

Last(S) == CHOOSE i \in S : \A j \in S : j <= i

\* the extractor has run on the transcript of the hook's input
Extracted == hook.pc = "extracted"

\* C30: the extractor returns the content of the last assistant record of the
\* transcript, its text blocks joined by newlines or its string content, and
\* no message when there is no assistant record.
C30_Original ==
    Extracted =>
        LET t == hook.input.transcript
            texts == BlockTexts(t.lines[Last(AssistantLines(t))])
        IN  IF ~t.exists \/ AssistantLines(t) = {} THEN hook.message = None
            ELSE IF texts = <<>> THEN hook.message \in {None, ""}
            ELSE JoinedBy(texts, hook.message)

\* C30 as the code has it: the extractor returns the content of the last
\* assistant record that carries a message with a string content or at least
\* one non-empty text block, skipping the lines that are no JSON, the other
\* records and the assistant records without text; no message when there is
\* no such record or no file.
C30_LastWithText ==
    Extracted =>
        LET t == hook.input.transcript
        IN  IF ~t.exists \/ TextLines(t) = {} THEN hook.message = None
            ELSE JoinedBy(BlockTexts(t.lines[Last(TextLines(t))]), hook.message)

\* the blocks of the record before a tool-use record and a line that is no
\* JSON came out joined
C30_Witness ==
    /\ Extracted
    /\ hook.input.transcript.exists
    /\ Len(hook.input.transcript.lines) = 3
    /\ hook.input.transcript.lines[2] = ToolUseEntry
    /\ hook.input.transcript.lines[3] = InvalidLine
    /\ hook.message = "a<b\nc"

\* a transcript without an assistant record gave no message
C30_WitnessNoRecord ==
    /\ Extracted
    /\ hook.input.transcript.lines = <<UserEntry, InvalidLine>>
    /\ hook.message = None

\* a message of a chat on the allow-list; one that has a handler: a command
\* (a leading slash) or a text that is not blank
FromListed(q) == ChatMessage(q) /\ q.body.message.chat \in ALLOWED_CHAT_IDS
Dispatched(q) ==
    startsWith(q.body.message.text, "/") \/ trim(q.body.message.text) # ""

\* a send of the completion hook's message
IsDelivery(call, chatId) == call.method = "sendMessage" /\ call.chat_id = chatId

\* C31 as stated: every message of an authorized chat, whatever its text,
\* makes that chat the active chat, and the completion hook delivers to the
\* active chat.
C31_Original ==
    [][\A r \in Slots :
        /\ (Posted(r) /\ FromListed(req'[r])) =>
               chatFile' = req'[r].body.message.chat
        /\ (Posted(r) /\ HookCallback(req'[r]) /\ req'[r].out # <<>>) =>
               IsDelivery(req'[r].out[1], chatFile)]_vars

\* C31: a command or a text that is not blank from an authorized chat makes
\* that chat the active chat as its handler starts, and nothing else changes
\* the active chat (a blank or text-less message, a callback query, a message
\* of an unlisted chat and a completion callback leave it alone); a completion
\* callback reads the active chat as it is handled and sends to it, and its
\* plain-text retry goes to the same chat.
C31_ActiveChat ==
    [][\A r \in Slots :
        /\ (Posted(r) /\ FromListed(req'[r]) /\ Dispatched(req'[r])) =>
               chatFile' = req'[r].body.message.chat
        /\ (Stepped(r) /\ ~(Posted(r) /\ FromListed(req'[r]) /\ Dispatched(req'[r]))) =>
               chatFile' = chatFile
        /\ (Stepped(r) /\ HookCallback(req'[r])) =>
               \A i \in 1..Len(req'[r].out) :
                   IsDelivery(req'[r].out[i],
                              IF Posted(r) THEN chatFile ELSE req[r].out[1].chat_id)]_vars

\* the typing timer of chat 111's forwarded text was running when the
\* callback arrived, chat 222 had written since, and the callback's message
\* went to chat 222
C31_Witness ==
    \E r \in Slots :
        /\ HookCallback(req[r]) /\ req[r].typingAtArrival = "111"
        /\ chatFile = "222"
        /\ Len(req[r].out) = 1 /\ IsDelivery(req[r].out[1], "222")
        /\ req[r].out[1].parse_mode = "HTML"

\* a blank message of the authorized chat 111 left chat 222 the active chat
C31_WitnessBlank ==
    \E r \in Slots :
        /\ FromListed(req[r]) /\ ~Dispatched(req[r]) /\ req[r].pc = "done"
        /\ req[r].body.message.chat = "111" /\ chatFile = "222"

\* C32: a restart of the bridge process leaves the pane-id file and the
\* chat-id file as they were, and the new process starts with the selection
\* read from the pane-id file (none when there is no file), the mute flag
\* false, and no typing timer, whatever the old process held.
C32_Restart ==
    [][lastRun' # lastRun =>
        /\ paneFile' = paneFile /\ chatFile' = chatFile
        /\ selectedPaneId' = paneFile'
        /\ isMuted' = FALSE
        /\ typingInterval' = None /\ liveTimers' = 0]_vars

\* the old process was muted with pane 5 selected and the typing timer of
\* chat 111 running; the new one has pane 5 and chat 111 from the files, is
\* not muted and has no timer
C32_Witness ==
    /\ lastRun.ended /\ lastRun.isMuted /\ lastRun.typingInterval = "111"
    /\ lastRun.selectedPaneId = "5"
    /\ selectedPaneId = "5" /\ paneFile = "5" /\ chatFile = "111"
    /\ ~isMuted /\ typingInterval = None /\ liveTimers = 0
    /\ \A r \in Slots : req[r] = IdleReq

\* a /panes or /status command of an authorized chat
IsReport(q) == FromListed(q) /\ SlashText(q) /\ CommandOf(q) \in {"/panes", "/status"}

\* C33 as stated: no step of the handler of /panes or /status changes the
\* selected pane (memory or file), the mute flag, the pending marker or the
\* typing timer.
C33_Original ==
    [][\A r \in Slots :
        (Stepped(r) /\ IsReport(req'[r])) =>
            UNCHANGED <<selectedPaneId, paneFile, isMuted, pendingFile, typingInterval,
                        liveTimers>>]_vars

\* C33: no step of the handler of /panes or /status changes the mute flag,
\* the pending marker or the typing timer, or injects anything.  Its first
\* step resolves the pane (always for /status, for /panes unless the listing
\* is empty): a selected pane that is in the listing read stays selected, one
\* that is not is cleared from memory and file.  Its later steps leave the
\* selection alone.
C33_ReportFrame ==
    [][\A r \in Slots :
        (Stepped(r) /\ IsReport(req'[r])) =>
            LET q == req'[r]
            IN  /\ UNCHANGED <<isMuted, pendingFile, typingInterval, liveTimers>>
                /\ q.inj = <<>>
                /\ Posted(r) =>
                     /\ q.resolved = <<>> <=> (CommandOf(q) = "/panes" /\ panes = {})
                     /\ IF q.resolved # <<>> /\ selectedPaneId # None
                           /\ selectedPaneId \notin q.resolved[1].listed
                        THEN selectedPaneId' = None /\ paneFile' = None
                        ELSE UNCHANGED <<selectedPaneId, paneFile>>
                /\ ~Posted(r) => UNCHANGED <<selectedPaneId, paneFile>>]_vars

\* /status and /panes were answered while the selected pane was listed and the
\* typing timer ran: nothing moved
C33_Witness ==
    \E r \in Slots :
        /\ IsReport(req[r]) /\ Answered(req[r], 200, "OK")
        /\ Len(req[r].resolved) = 1 /\ req[r].resolved[1].selected = "5"
        /\ "5" \in req[r].resolved[1].listed
        /\ selectedPaneId = "5" /\ paneFile = "5"
        /\ typingInterval = "111" /\ isMuted

\* /status found the selected pane 5 gone from the listing and cleared it
C33_WitnessVanished ==
    \E r \in Slots :
        /\ IsReport(req[r]) /\ CommandOf(req[r]) = "/status"
        /\ Answered(req[r], 200, "OK")
        /\ Len(req[r].resolved) = 1 /\ req[r].resolved[1].selected = "5"
        /\ "5" \notin req[r].resolved[1].listed
        /\ selectedPaneId = None /\ paneFile = None

\* the placeholder of the first code block, as user text and escaped
Placeholder == "<<<CODEBLOCK0>>>"
EscapedPlaceholder == "&lt;&lt;&lt;CODEBLOCK0&gt;&gt;&gt;"

\* C34 as stated, for the converter of the bridge: user text that spells the
\* placeholder of a code block is output as escaped text where it stood (at
\* the start of the message the output starts with it), and a code block at
\* the end of the message is at the end of the output.
C34_Original ==
    \A a \in Applications(conv.bridge) :
        /\ startsWith(a.text, Placeholder) => startsWith(a.html, EscapedPlaceholder)
        /\ \A block \in ExpectedBlocks(a.text) :
              (startsWith(a.text, Placeholder) /\ countOf(a.text, BT) = 6) =>
                  SubSeq(a.html, Len(a.html) - Len(block) + 1, Len(a.html)) = block

\* the message spells the placeholder and then holds a code block: the block
\* is put where the user's text was, and the placeholder of the block is
\* left in the output as text
C34_Collision ==
    /\ conv.text = Placeholder \o "^^^js\na<b & **k**\n^^^"
    /\ conv.bridge # <<>>
    /\ conv.bridge[1] = "<pre><code>a&lt;b &amp; **k**</code></pre>" \o EscapedPlaceholder

\* C35: in every state of the running bridge the selected pane in memory is
\* what the pane-id file holds: both none, or the same id.
C35_MemoryIsFile == selectedPaneId = paneFile

\* after a restart with a selection on file, /setpane 5 moved memory and file
\* to pane 5
C35_Witness ==
    \E r \in Slots :
        /\ lastRun.ended /\ lastRun.selectedPaneId = "3"
        /\ IsSetpane(req[r]) /\ Answered(req[r], 200, "OK")
        /\ selectedPaneId = "5" /\ paneFile = "5"

\* after a restart, a stale selection was cleared from memory and file
C35_WitnessCleared ==
    \E r \in Slots :
        /\ lastRun.ended
        /\ req[r].resolved # <<>> /\ req[r].resolved[1].selected = "3"
        /\ "3" \notin req[r].resolved[1].listed
        /\ selectedPaneId = None /\ paneFile = None

\* the request is a free text that went into the pane with its carriage return
Forwarded(q) == IsFreeText(q) /\ Len(q.inj) = 2 /\ ~q.shellFailed

\* C36 as stated: when the handler of a /stop goes on after its awaited
\* reply while a free text forwarded after its escape key is outstanding, the
\* typing timer and the pending marker of that text stay as they are.
C36_Original ==
    [][\A r \in Slots :
        (Stepped(r) /\ ~Posted(r) /\ IsStop(req'[r]) /\ outstanding > 0
         /\ \E s \in Slots \ {r} : Forwarded(req[s])) =>
            /\ typingInterval' = typingInterval
            /\ pendingFile' = pendingFile]_vars

\* a /stop sent its escape key and waited for its reply; a free text was
\* forwarded meanwhile and is outstanding; the /stop then cancelled the
\* text's timer and removed its marker
C36_StopCancelsLater ==
    \E r, s \in Slots :
        /\ r # s
        /\ IsStop(req[r]) /\ EscapeSent(req[r]) /\ req[r].raced
        /\ Forwarded(req[s]) /\ req[s].typingAtArrival = None
        /\ outstanding = 1
        /\ typingInterval = None /\ liveTimers = 0 /\ pendingFile = <<>>

\* the hook process starts on a Stop event
StopStarts ==
    /\ hook.pc \in {"none", "exited"} /\ hook' # hook
    /\ hook'.input.parsable /\ hook'.input.hook_event_name = "Stop"

\* C37: the marker holds one timestamp however many texts were forwarded.
\* The hook process that handled a Stop event while two or more forwarded
\* texts had no completion yet leaves no marker when it ends; and a hook
\* process that starts on a Stop event while there is no marker exits at
\* once with code 0, sends nothing and leaves no marker, however many
\* forwarded texts are still without a completion.
C37_SingleFlag ==
    [][/\ Len(pendingFile') <= 1
       /\ (hook'.pc = "exited" /\ hook.pc # "exited" /\ HandledStop(hook')
           /\ hook'.unanswered >= 2) => pendingFile' = <<>>
       /\ (StopStarts /\ pendingFile = <<>>) =>
              /\ hook'.pc = "exited" /\ hook'.code = 0 /\ hook'.out = <<>>
              /\ pendingFile' = <<>>]_vars

\* two texts had been forwarded without a completion; the hook process of
\* the first Stop event sent its message and removed the marker, and one
\* text is still without a completion
C37_Witness ==
    /\ hook.pc = "exited" /\ HandledStop(hook) /\ hook.unanswered = 2
    /\ hook.marker # <<>> /\ Len(hook.out) = 1 /\ hook.answers = <<"ok">>
    /\ pendingFile = <<>> /\ outstanding = 1

\* the second Stop event: a forwarded text was without a completion, the
\* marker was gone, and the hook process sent nothing
C37_WitnessSecondStop ==
    /\ hook.pc = "exited" /\ hook.unanswered = 1 /\ outstanding = 0
    /\ hook.input = StopInput(TRUE, "t.jsonl", File(<<DoneEntry, UserEntry>>))
    /\ hook.marker = <<>> /\ ~hook.passed /\ hook.out = <<>> /\ hook.code = 0
    /\ pendingFile = <<>>

====
